---- MODULE Spec2Model ----
(***************************************************************************)
(* Plaid: the bytecode compiler (backend/compiler.go), the instruction     *)
(* codec (backend/instructions.go) and the register virtual machine        *)
(* (Interpreter.Execute), modelled as one state machine: a program AST is  *)
(* compiled, an interpreter is constructed, and the interpreter executes   *)
(* one instruction per step.                                               *)
(*                                                                         *)
(* 32-bit words (int32, uint32, RegisterAddress, BytecodeAddress) are      *)
(* represented by the integer in -2^31 .. 2^31-1 that is congruent to the  *)
(* word modulo 2^32; an unsigned word >= 2^31 is therefore a negative      *)
(* number here, and the unsigned comparisons below account for it.         *)
(***************************************************************************)
EXTENDS Integers, Sequences, FiniteSets, TLC

(***************************************************************************)
(* Opcodes                                                                 *)
(***************************************************************************)
OpcodeNop == 1
OpcodeHalt == 2
OpcodeBoolConst == 3
OpcodeIntConst == 4
OpcodeDecConst == 5
OpcodeStrConst == 6
OpcodeFuncConst == 7
OpcodeMove == 8
OpcodeLoadUpVal == 9
OpcodeSetUpVal == 10
OpcodeBrAlways == 11
OpcodeBrTrue == 12
OpcodeBrFalse == 13
OpcodeDispatch == 14
OpcodeReturn == 15
OpcodePrint == 16
OpcodeIntLT == 112
OpcodeIntLTEq == 113
OpcodeIntGT == 114
OpcodeIntGTEq == 115
OpcodeIntEq == 116
OpcodeIntAdd == 117
OpcodeIntSub == 118
OpcodeIntMul == 119
OpcodeIntDiv == 120
OpcodeIntNeg == 121
OpcodeDecLT == 128
OpcodeDecLTEq == 129
OpcodeDecGT == 130
OpcodeDecGTEq == 131
OpcodeDecEq == 132
OpcodeDecAdd == 133
OpcodeDecSub == 134
OpcodeDecMul == 135
OpcodeDecDiv == 136
OpcodeDecNeg == 137

IntBinaryOpcodes ==
  {OpcodeIntLT, OpcodeIntLTEq, OpcodeIntGT, OpcodeIntGTEq, OpcodeIntEq,
   OpcodeIntAdd, OpcodeIntSub, OpcodeIntMul, OpcodeIntDiv}

DecBinaryOpcodes ==
  {OpcodeDecLT, OpcodeDecLTEq, OpcodeDecGT, OpcodeDecGTEq, OpcodeDecEq,
   OpcodeDecAdd, OpcodeDecSub, OpcodeDecMul, OpcodeDecDiv}

\* the opcodes the switch of Interpreter.Execute has a case for
KnownOpcodes ==
  {OpcodeHalt, OpcodeBoolConst, OpcodeIntConst, OpcodeDecConst, OpcodeStrConst,
   OpcodeFuncConst, OpcodeMove, OpcodeLoadUpVal, OpcodeSetUpVal, OpcodeBrAlways,
   OpcodeBrTrue, OpcodeBrFalse, OpcodeDispatch, OpcodeReturn, OpcodePrint,
   OpcodeIntNeg} \cup IntBinaryOpcodes \cup DecBinaryOpcodes

(***************************************************************************)
(* 32-bit words and their big-endian encoding                              *)
(***************************************************************************)
MaxInt32 == 2147483647

MinInt32 == (0 - MaxInt32) - 1

\* the low 31 bits of a word, as a natural number
Low31(w) == IF w >= 0 THEN w ELSE (w + MaxInt32) + 1

\* the word whose four bytes, most significant first, are b0 b1 b2 b3
WordOfBytes(b0, b1, b2, b3) ==
  LET low == ((b0 % 128) * 16777216) + (b1 * 65536) + (b2 * 256) + b3
  IN  IF b0 >= 128 THEN (low - MaxInt32) - 1 ELSE low

\* the byte of word w that `(w >> shift) & 0xff` selects, shift in {0,8,16,24}
ByteAt(w, shift) ==
  IF shift = 24
    THEN (Low31(w) \div 16777216) + (IF w < 0 THEN 128 ELSE 0)
    ELSE (Low31(w) \div (IF shift = 0 THEN 1 ELSE IF shift = 8 THEN 256 ELSE 65536)) % 256

int32ToBytes(val) ==
  LET b0 == ByteAt(val, 0)
      b1 == ByteAt(val, 8)
      b2 == ByteAt(val, 16)
      b3 == ByteAt(val, 24)
  IN  <<b3, b2, b1, b0>>

uint32ToBytes(val) ==
  LET b0 == ByteAt(val, 0)
      b1 == ByteAt(val, 8)
      b2 == ByteAt(val, 16)
      b3 == ByteAt(val, 24)
  IN  <<b3, b2, b1, b0>>

registerToBytes(reg) == uint32ToBytes(reg)

addressToBytes(addr) == uint32ToBytes(addr)

\* uint32 arithmetic on RegisterAddress: reg++ and reg--
IncReg(reg) == IF reg = MaxInt32 THEN (0 - MaxInt32) - 1 ELSE reg + 1

DecReg(reg) == IF reg = (0 - MaxInt32) - 1 THEN MaxInt32 ELSE reg - 1

\* int(reg) >= n for a uint32 reg and a small natural n
RegGEq(reg, n) == reg < 0 \/ reg >= n

(***************************************************************************)
(* float32 values.  A decimal is the fraction v / d in lowest terms with   *)
(* d > 0 (d = 0 stands for the infinities and NaN).  The conversions are   *)
(* defined for zero and for the normal numbers whose fraction fits the     *)
(* integers of the model.                                                  *)
(***************************************************************************)
RECURSIVE Gcd(_, _)
Gcd(a, b) == IF b = 0 THEN a ELSE Gcd(b, a % b)

Abs(n) == IF n < 0 THEN 0 - n ELSE n

RECURSIVE Pow2(_)
Pow2(n) == IF n = 0 THEN 1 ELSE 2 * Pow2(n - 1)

\* math.Float32frombits: sign, 8 bits of exponent, 23 bits of mantissa
Float32frombits(bits) ==
  LET exponent == Low31(bits) \div 8388608
      significand == 8388608 + (Low31(bits) % 8388608)
      sign == IF bits < 0 THEN 0 - 1 ELSE 1
      shift == exponent - 150
  IN  CASE Low31(bits) = 0 -> [k |-> "dec", v |-> 0, d |-> 1]
        [] exponent \in 1..254 /\ shift >= 0 ->
             [k |-> "dec", v |-> sign * (significand * Pow2(shift)), d |-> 1]
        [] exponent \in 1..254 /\ shift < 0 ->
             [k |-> "dec",
              v |-> sign * (significand \div Gcd(significand, Pow2(0 - shift))),
              d |-> Pow2(0 - shift) \div Gcd(significand, Pow2(0 - shift))]

\* math.Float32bits of the decimal value
Float32bits(value) ==
  IF value.v = 0
    THEN 0
    ELSE LET m == Abs(value.v)
             k == CHOOSE n \in 0..30 : Pow2(n) = value.d
             s == CHOOSE n \in 0..23 : m * Pow2(n) >= 8388608 /\ m * Pow2(n) < 16777216
             low == ((150 - (k + s)) * 8388608) + ((m * Pow2(s)) - 8388608)
         IN  IF value.v < 0 THEN (low - MaxInt32) - 1 ELSE low

float32ToBytes(val) == uint32ToBytes(Float32bits(val))

(***************************************************************************)
(* Instruction.Generate                                                    *)
(***************************************************************************)
GenHalt == <<OpcodeHalt>>

GenBoolConst(Value, Dest) ==
  <<OpcodeBoolConst>> \o (IF Value THEN int32ToBytes(1) ELSE int32ToBytes(0))
    \o registerToBytes(Dest)

GenIntConst(Value, Dest) ==
  <<OpcodeIntConst>> \o int32ToBytes(Value) \o registerToBytes(Dest)

GenFuncConst(ConstantIndex, Dest) ==
  <<OpcodeFuncConst>> \o uint32ToBytes(ConstantIndex) \o registerToBytes(Dest)

GenMove(Source, Dest) ==
  <<OpcodeMove>> \o registerToBytes(Source) \o registerToBytes(Dest)

GenLoadUpVal(Index, Dest) ==
  <<OpcodeLoadUpVal>> \o int32ToBytes(Index) \o registerToBytes(Dest)

GenSetUpVal(Source, Index) ==
  <<OpcodeSetUpVal>> \o registerToBytes(Source) \o int32ToBytes(Index)

GenBrAlways(Addr) == <<OpcodeBrAlways>> \o addressToBytes(Addr)

GenBrTrue(Test, Addr) ==
  <<OpcodeBrTrue>> \o registerToBytes(Test) \o addressToBytes(Addr)

GenDispatch(Source, FirstArgRegister) ==
  <<OpcodeDispatch>> \o registerToBytes(Source) \o registerToBytes(FirstArgRegister)

GenReturn(Source) == <<OpcodeReturn>> \o registerToBytes(Source)

GenPrint(Source) == <<OpcodePrint>> \o registerToBytes(Source)

\* IntLT, IntLTEq, IntGT, IntGTEq, IntEq, IntAdd, IntSub, IntMul, IntDiv
GenIntBinary(opcode, Left, Right, Dest) ==
  <<opcode>> \o registerToBytes(Left) \o registerToBytes(Right)
    \o registerToBytes(Dest)

GenDecConst(Value, Dest) ==
  <<OpcodeDecConst>> \o float32ToBytes(Value) \o registerToBytes(Dest)

GenStrConst(ConstantIndex, Dest) ==
  <<OpcodeStrConst>> \o uint32ToBytes(ConstantIndex) \o registerToBytes(Dest)

GenBrFalse(Source, Addr) ==
  <<OpcodeBrFalse>> \o registerToBytes(Source) \o addressToBytes(Addr)

GenIntNeg(Operand, Dest) ==
  <<OpcodeIntNeg>> \o registerToBytes(Operand) \o registerToBytes(Dest)

\* DecLT, DecLTEq, DecGT, DecGTEq, DecEq, DecAdd, DecSub, DecMul, DecDiv
GenDecBinary(opcode, Left, Right, Dest) ==
  <<opcode>> \o registerToBytes(Left) \o registerToBytes(Right)
    \o registerToBytes(Dest)

GenDecNeg(Operand, Dest) ==
  <<OpcodeDecNeg>> \o registerToBytes(Operand) \o registerToBytes(Dest)

(***************************************************************************)
(* The compiler: assembly, Compile, compileFunction, compile               *)
(*                                                                         *)
(* AST nodes are records with a field `kind`:                              *)
(*   Bool [Value]   Int [Value]   Dec [Value]   Ident [Name]               *)
(*   Func [Upvalues, Locals, Body]                                         *)
(*   Binary [Operator, Left, Right, LeftType]                              *)
(*   Dispatch [Root, Arguments]                                            *)
(*   Decl [Assignee, Assignment]   Assign [Assignee, Assignment]           *)
(*   Return [HasArgument, Argument]   Print [Argument]                     *)
(*   If [IfClause, ElifClauses, HasElse, ElseClause]                       *)
(* A FuncPrototype is [Upvalues, Locals, Bytecode]; Bytecode is the byte   *)
(* sequence (its Size is its length).  The assembly record carries, next   *)
(* to the fields of the Go struct, the list childFuncs of the top-level    *)
(* assembly (storeFunc forwards to it), a flag for a compiler panic, and   *)
(* a log of stackPtr at the statement boundaries.                          *)
(***************************************************************************)
bytesInInt32 == 4

newAssembly(locals, upvalues, childFuncs, stmtLog, fnId) ==
  [ currFunc     |-> [Upvalues |-> upvalues, Locals |-> locals, Constants |-> <<>>,
                     Bytecode |-> <<>>],
    childFuncs   |-> childFuncs,
    returnRegs   |-> 1,
    localRegs    |-> Len(locals),
    reservedRegs |-> 1 + Len(locals),
    stackPtr     |-> 1 + Len(locals),
    panicked     |-> FALSE,
    stmtLog      |-> stmtLog,
    jumpLog      |-> <<>>,
    fnId         |-> fnId ]

\* Bytecode.Write
Write(state, p) == [state EXCEPT !.currFunc.Bytecode = @ \o p]

isRegisterOnStack(state, reg) == RegGEq(reg, state.reservedRegs)

\* state.stackPtr++ when reg is on the register stack
pushIfOnStack(state, reg) ==
  IF isRegisterOnStack(state, reg)
    THEN [state EXCEPT !.stackPtr = IncReg(@)]
    ELSE state

\* state.stackPtr-- when reg is on the register stack
popIfOnStack(state, reg) ==
  IF isRegisterOnStack(state, reg)
    THEN [state EXCEPT !.stackPtr = DecReg(@)]
    ELSE state

hasLocal(state, name) ==
  \E i \in 1..Len(state.currFunc.Locals) : state.currFunc.Locals[i].Name = name

\* the register of the first local record with the given name
lookupLocalRegister(state, name) ==
  LET Locals == state.currFunc.Locals
      i == CHOOSE k \in 1..Len(Locals) :
             /\ Locals[k].Name = name
             /\ \A j \in 1..(k - 1) : Locals[j].Name # name
  IN  state.returnRegs + Locals[i].LookupIndex

\* [exists, index]: the position of the first upvalue record with the name
getUpvalueRecord(state, name) ==
  LET Upvalues == state.currFunc.Upvalues
      hits == {k \in 1..Len(Upvalues) : Upvalues[k].Name = name}
  IN  IF hits = {}
        THEN [exists |-> FALSE, index |-> 0]
        ELSE [exists |-> TRUE,
              index  |-> (CHOOSE k \in hits : \A j \in hits : k <= j) - 1]

\* Placeholder.registerJump: write the branch, remember where its address is
\* registerJump that writes the branch instruction twice
registerJumpWritesTwice(state, PlacesHeld, inst) ==
  LET written == Write(Write(state, inst), inst)
      place == Len(written.currFunc.Bytecode) - bytesInInt32
  IN  [st |-> [written EXCEPT !.jumpLog =
                 Append(@, [call |-> "registerJump", fnId |-> state.fnId,
                            places |-> <<place>>, address |-> 0])],
       PlacesHeld |-> Append(PlacesHeld, place)]

\* (jumpLog records the call: the function and the place held)
registerJump(state, PlacesHeld, inst) ==
  LET written == Write(state, inst)
      place == Len(written.currFunc.Bytecode) - bytesInInt32
  IN  [st |-> [written EXCEPT !.jumpLog =
                 Append(@, [call |-> "registerJump", fnId |-> state.fnId,
                            places |-> <<place>>, address |-> 0])],
       PlacesHeld |-> Append(PlacesHeld, place)]

RECURSIVE patchJumps(_, _, _, _)
patchJumps(Bytes, PlacesHeld, k, addrBytes) ==
  IF k > Len(PlacesHeld)
    THEN Bytes
    ELSE LET heldAddr == PlacesHeld[k]
             patched == [i \in 1..Len(Bytes) |->
                           IF i > heldAddr /\ i <= heldAddr + 4
                             THEN addrBytes[i - heldAddr]
                             ELSE Bytes[i]]
         IN  patchJumps(patched, PlacesHeld, k + 1, addrBytes)

\* computeJumps that takes the offset of the last byte written
computeJumpsToLastByte(state, PlacesHeld) ==
  LET computedAddress == Len(state.currFunc.Bytecode) - 1
      addrBytes == addressToBytes(computedAddress)
  IN  [state EXCEPT
         !.currFunc.Bytecode = patchJumps(@, PlacesHeld, 1, addrBytes),
         !.jumpLog = Append(@, [call |-> "computeJumps", fnId |-> state.fnId,
                                places |-> PlacesHeld,
                                address |-> computedAddress])]

\* computeJumps that resolves only the first place held
computeJumpsOfFirstPlace(state, PlacesHeld) ==
  LET computedAddress == Len(state.currFunc.Bytecode)
      addrBytes == addressToBytes(computedAddress)
  IN  [state EXCEPT
         !.currFunc.Bytecode = patchJumps(@, SubSeq(PlacesHeld, 1, 1), 1, addrBytes),
         !.jumpLog = Append(@, [call |-> "computeJumps", fnId |-> state.fnId,
                                places |-> SubSeq(PlacesHeld, 1, 1),
                                address |-> computedAddress])]

\* Placeholder.computeJumps: the current size goes into every place held
computeJumps(state, PlacesHeld) ==
  LET computedAddress == Len(state.currFunc.Bytecode)
      addrBytes == addressToBytes(computedAddress)
  IN  [state EXCEPT
         !.currFunc.Bytecode = patchJumps(@, PlacesHeld, 1, addrBytes),
         !.jumpLog = Append(@, [call |-> "computeJumps", fnId |-> state.fnId,
                                places |-> PlacesHeld,
                                address |-> computedAddress])]

IntOperators == {"<", "<=", ">", ">=", "==", "+", "-", "*", "/"}

IntOpcodeOf(Operator) ==
  CASE Operator = "<"  -> OpcodeIntLT
    [] Operator = "<=" -> OpcodeIntLTEq
    [] Operator = ">"  -> OpcodeIntGT
    [] Operator = ">=" -> OpcodeIntGTEq
    [] Operator = "==" -> OpcodeIntEq
    [] Operator = "+"  -> OpcodeIntAdd
    [] Operator = "-"  -> OpcodeIntSub
    [] Operator = "*"  -> OpcodeIntMul
    [] Operator = "/"  -> OpcodeIntDiv

DecOpcodeOf(Operator) ==
  CASE Operator = "<"  -> OpcodeDecLT
    [] Operator = "<=" -> OpcodeDecLTEq
    [] Operator = ">"  -> OpcodeDecGT
    [] Operator = ">=" -> OpcodeDecGTEq
    [] Operator = "==" -> OpcodeDecEq
    [] Operator = "+"  -> OpcodeDecAdd
    [] Operator = "-"  -> OpcodeDecSub
    [] Operator = "*"  -> OpcodeDecMul
    [] Operator = "/"  -> OpcodeDecDiv

IdentNode(name) == [kind |-> "Ident", Name |-> name]

RECURSIVE compile(_, _, _)
RECURSIVE compileStatements(_, _, _)
RECURSIVE compileArguments(_, _, _, _)
RECURSIVE compileElifConditions(_, _, _, _)
RECURSIVE compileElifBodies(_, _, _, _, _)
RECURSIVE compileFunction(_, _)

\* for _, stmt := range stmts { state.compile(stmt, state.stackPtr) }
compileStatements(state, stmts, k) ==
  IF k > Len(stmts) \/ state.panicked
    THEN state
    ELSE LET logged(after) ==
               [after EXCEPT !.stmtLog =
                  Append(@, [fnId     |-> state.fnId,
                             kind     |-> stmts[k].kind,
                             reserved |-> state.reservedRegs,
                             before   |-> state.stackPtr,
                             after    |-> after.stackPtr])]
         IN  compileStatements(logged(compile(state, stmts[k], state.stackPtr).st),
                               stmts, k + 1)

\* the argument loop of a DispatchExpr
compileArguments(state, Arguments, i, firstArgRegister) ==
  IF i > Len(Arguments)
    THEN [st |-> state, firstArgRegister |-> firstArgRegister]
    ELSE LET rest(r) ==
               compileArguments(r.st, Arguments, i + 1,
                                IF i = 1 THEN r.reg ELSE firstArgRegister)
         IN  rest(compile(state, Arguments[i], state.stackPtr))

\* the elif-condition loop of an IfStmt; labels[i] is PlacesHeld of clause i
compileElifConditions(state, ElifClauses, i, labels) ==
  IF i > Len(ElifClauses)
    THEN [st |-> state, labels |-> labels]
    ELSE LET rest(r, j) ==
               compileElifConditions(popIfOnStack(j.st, r.reg), ElifClauses, i + 1,
                                     Append(labels, j.PlacesHeld))
             branch(r) == rest(r, registerJump(r.st, <<>>, GenBrTrue(r.reg, 0)))
         IN  branch(compile(state, ElifClauses[i].Condition, state.stackPtr))

\* the elif-body loop of an IfStmt; doneLabel is PlacesHeld of the done label
compileElifBodies(state, n, i, labels, doneLabel) ==
  IF i > Len(n.ElifClauses)
    THEN [st |-> state, doneLabel |-> doneLabel]
    ELSE LET rest(j) == compileElifBodies(j.st, n, i + 1, labels, j.PlacesHeld)
             leave(body) ==
               IF n.HasElse \/ i < Len(n.ElifClauses)
                 THEN rest(registerJump(body, doneLabel, GenBrAlways(0)))
                 ELSE rest([st |-> body, PlacesHeld |-> doneLabel])
         IN  leave(compileStatements(computeJumps(state, labels[i]),
                                     n.ElifClauses[i].Body, 1))

compileLiteral(state, inst, destReg) ==
  [st |-> pushIfOnStack(Write(state, inst), destReg), reg |-> destReg]

compileIdentExpr(state, n, destReg) ==
  LET up == getUpvalueRecord(state, n.Name)
  IN  IF up.exists
        THEN compileLiteral(state, GenLoadUpVal(up.index, destReg), destReg)
        ELSE IF hasLocal(state, n.Name)
          THEN [st |-> state, reg |-> lookupLocalRegister(state, n.Name)]
          ELSE [st |-> [state EXCEPT !.panicked = TRUE], reg |-> destReg]

compileBinaryExpr(state, n, destReg) ==
  LET emit(l, r) ==
        IF n.LeftType = "Int"
          THEN IF n.Operator \in IntOperators
                 THEN Write(r.st, GenIntBinary(IntOpcodeOf(n.Operator),
                                               l.reg, r.reg, destReg))
                 ELSE [r.st EXCEPT !.panicked = TRUE]
          ELSE IF n.LeftType = "Dec"
            THEN IF n.Operator \in IntOperators
                   THEN Write(r.st, GenDecBinary(DecOpcodeOf(n.Operator),
                                                 l.reg, r.reg, destReg))
                   ELSE [r.st EXCEPT !.panicked = TRUE]
            ELSE r.st
      release(l, r) ==
        [st  |-> pushIfOnStack(popIfOnStack(popIfOnStack(emit(l, r), l.reg), r.reg),
                               destReg),
         reg |-> destReg]
      right(l) == release(l, compile(l.st, n.Right, l.st.stackPtr))
  IN  right(compile(state, n.Left, state.stackPtr))

\* DeclarationStmt, and AssignmentStmt to a local: value into the local's register
compileIntoLocal(state, localReg, Assignment, result) ==
  LET store(a) ==
        [st  |-> IF a.reg # localReg /\ ~isRegisterOnStack(a.st, a.reg)
                   THEN Write(a.st, GenMove(a.reg, localReg))
                   ELSE a.st,
         reg |-> result]
  IN  store(compile(state, Assignment, localReg))

compileDeclarationStmt(state, n, destReg) ==
  IF hasLocal(state, n.Assignee)
    THEN compileIntoLocal(state, lookupLocalRegister(state, n.Assignee),
                          n.Assignment, destReg)
    ELSE [st |-> [state EXCEPT !.panicked = TRUE], reg |-> destReg]

compileAssignmentStmt(state, n, destReg) ==
  LET up == getUpvalueRecord(state, n.Assignee)
      setUpVal(a) ==
        [st  |-> popIfOnStack(Write(a.st, GenSetUpVal(a.reg, up.index)), a.reg),
         reg |-> destReg]
      setLocal(d) ==
        IF d.st.panicked
          THEN d
          ELSE compileIntoLocal(d.st, d.reg, n.Assignment, d.reg)
  IN  IF up.exists
        THEN setUpVal(compile(state, n.Assignment, state.stackPtr))
        ELSE setLocal(compile(state, IdentNode(n.Assignee), state.stackPtr))

compileDispatchExpr(state, n, destReg) ==
  LET result(called) ==
        [st  |-> IF destReg # 0 THEN Write(called, GenMove(0, destReg)) ELSE called,
         reg |-> destReg]
      call(sourceReg, args) ==
        result(Write([args.st EXCEPT !.stackPtr = args.firstArgRegister],
                     GenDispatch(sourceReg, args.firstArgRegister)))
      arguments(root) ==
        call(root.reg,
             compileArguments(pushIfOnStack(root.st, root.reg), n.Arguments, 1, 0))
  IN  arguments(compile(state, n.Root, state.stackPtr))

compileReturnStmt(state, n, destReg) ==
  LET return(a) == [st |-> Write(a.st, GenReturn(a.reg)), reg |-> destReg]
  IN  IF n.HasArgument
        THEN return(compile(state, n.Argument, state.stackPtr))
        ELSE return([st |-> state, reg |-> 0])

compilePrintStmt(state, n, destReg) ==
  LET print(a) == [st |-> Write(a.st, GenPrint(a.reg)), reg |-> destReg]
  IN  print(compile(state, n.Argument, state.stackPtr))

\* in the order of the code: the if-condition and its BrTrue, the elif
\* conditions and theirs, the BrAlways to the else-clause (to done when
\* there is none), the if-body, the elif-bodies, the else-body, done
compileIfStmt(state, n, destReg) ==
  LET done(elseBody, doneLabel) ==
        [st |-> computeJumps(elseBody, doneLabel), reg |-> destReg]
      elseBody(elifBodies, elseLabel) ==
        done(IF n.HasElse
               THEN compileStatements(computeJumps(elifBodies.st, elseLabel),
                                      n.ElseClause, 1)
               ELSE elifBodies.st,
             elifBodies.doneLabel)
      elifBodies(afterIf, labels, elseLabel) ==
        elseBody(compileElifBodies(afterIf.st, n, 1, labels, afterIf.PlacesHeld),
                 elseLabel)
      afterIf(ifBody, labels, elseLabel, doneLabel) ==
        elifBodies(IF n.HasElse \/ Len(n.ElifClauses) > 0
                     THEN registerJump(ifBody, doneLabel, GenBrAlways(0))
                     ELSE [st |-> ifBody, PlacesHeld |-> doneLabel],
                   labels, elseLabel)
      ifBody(noneJump, ifLabel, labels) ==
        afterIf(compileStatements(computeJumps(noneJump.st, ifLabel),
                                  n.IfClause.Body, 1),
                labels,
                IF n.HasElse THEN noneJump.PlacesHeld ELSE <<>>,
                IF n.HasElse THEN <<>> ELSE noneJump.PlacesHeld)
      noneJump(elifs, ifLabel) ==
        ifBody(registerJump(elifs.st, <<>>, GenBrAlways(0)), ifLabel, elifs.labels)
      elifs(test, ifJump) ==
        noneJump(compileElifConditions(popIfOnStack(ifJump.st, test.reg),
                                       n.ElifClauses, 1, <<>>),
                 ifJump.PlacesHeld)
      ifJump(test) == elifs(test, registerJump(test.st, <<>>, GenBrTrue(test.reg, 0)))
  IN  ifJump(compile(state, n.IfClause.Condition, state.stackPtr))

\* compileFunction that calls storeFunc after it has compiled the body
compileFunctionStoresAfterBody(state, n) ==
  LET subState == [newAssembly(n.Locals, n.Upvalues, state.childFuncs,
                               state.stmtLog, Len(state.childFuncs) + 1)
                     EXCEPT !.jumpLog = state.jumpLog]
      stored(done) ==
        [st |-> [state EXCEPT
                   !.childFuncs = Append(done.childFuncs, done.currFunc),
                   !.stmtLog = done.stmtLog,
                   !.jumpLog = done.jumpLog,
                   !.panicked = done.panicked],
         prototypeIndex |-> Len(done.childFuncs)]
  IN  stored(Write(compileStatements(subState, n.Body, 1), GenReturn(0)))

\* the prototype is stored in childFuncs before the body is compiled; the
\* slot is a pointer in the Go code, so it shows the finished prototype
compileFunction(state, n) ==
  LET prototypeIndex == Len(state.childFuncs)
      empty == [Upvalues |-> n.Upvalues, Locals |-> n.Locals, Constants |-> <<>>,
                Bytecode |-> <<>>]
      subState == [newAssembly(n.Locals, n.Upvalues,
                               Append(state.childFuncs, empty),
                               state.stmtLog, prototypeIndex + 1)
                     EXCEPT !.jumpLog = state.jumpLog]
      stored(done) ==
        [st |-> [state EXCEPT
                   !.childFuncs = [done.childFuncs EXCEPT
                                     ![prototypeIndex + 1] = done.currFunc],
                   !.stmtLog = done.stmtLog,
                   !.jumpLog = done.jumpLog,
                   !.panicked = done.panicked],
         prototypeIndex |-> prototypeIndex]
  IN  stored(Write(compileStatements(subState, n.Body, 1), GenReturn(0)))

compileFuncLiteral(state, n, destReg) ==
  LET funcConst(f) ==
        compileLiteral(f.st, GenFuncConst(f.prototypeIndex, destReg), destReg)
  IN  funcConst(compileFunction(state, n))

compile(state, n, destReg) ==
  IF state.panicked
    THEN [st |-> state, reg |-> destReg]
    ELSE CASE n.kind = "Bool" ->
                compileLiteral(state, GenBoolConst(n.Value, destReg), destReg)
           [] n.kind = "Int" ->
                compileLiteral(state, GenIntConst(n.Value, destReg), destReg)
           [] n.kind = "Dec" ->
                compileLiteral(state, GenDecConst(n.Value, destReg), destReg)
           [] n.kind = "Func" -> compileFuncLiteral(state, n, destReg)
           [] n.kind = "Ident" -> compileIdentExpr(state, n, destReg)
           [] n.kind = "Binary" -> compileBinaryExpr(state, n, destReg)
           [] n.kind = "Decl" -> compileDeclarationStmt(state, n, destReg)
           [] n.kind = "Assign" -> compileAssignmentStmt(state, n, destReg)
           [] n.kind = "Dispatch" -> compileDispatchExpr(state, n, destReg)
           [] n.kind = "Return" -> compileReturnStmt(state, n, destReg)
           [] n.kind = "Print" -> compilePrintStmt(state, n, destReg)
           [] n.kind = "If" -> compileIfStmt(state, n, destReg)
           [] OTHER -> [st |-> [state EXCEPT !.panicked = TRUE], reg |-> destReg]

\* Compile: [mainFunc, funcs, panicked, stmtLog]
Compile(prog) ==
  LET assembled(done) ==
        [mainFunc |-> done.currFunc,
         funcs    |-> done.childFuncs,
         panicked |-> done.panicked,
         stmtLog  |-> done.stmtLog,
         jumpLog  |-> done.jumpLog]
  IN  assembled(Write(compileStatements(newAssembly(prog.Locals, <<>>, <<>>, <<>>, 0),
                                        prog.Statements, 1),
                      GenHalt))

(***************************************************************************)
(* AST constructors                                                        *)
(***************************************************************************)
IntLiteral(v) == [kind |-> "Int", Value |-> v]

BoolLiteral(b) == [kind |-> "Bool", Value |-> b]

Dec(v, d) == [k |-> "dec", v |-> v, d |-> d]

\* the decimal literal v/d, d a power of two
DecLiteral(v, d) == [kind |-> "Dec", Value |-> Dec(v, d)]

IdentExpr(name) == IdentNode(name)

\* LeftType is n.Left.GetType().String(); the programs annotate their
\* parameters, so the operands of BinaryExpr are of type Int
BinaryExpr(op, l, r) ==
  [kind |-> "Binary", Operator |-> op, Left |-> l, Right |-> r, LeftType |-> "Int"]

TypedBinaryExpr(leftType, op, l, r) ==
  [kind |-> "Binary", Operator |-> op, Left |-> l, Right |-> r, LeftType |-> leftType]

DispatchExpr(root, args) == [kind |-> "Dispatch", Root |-> root, Arguments |-> args]

DeclarationStmt(name, e) == [kind |-> "Decl", Assignee |-> name, Assignment |-> e]

AssignmentStmt(name, e) == [kind |-> "Assign", Assignee |-> name, Assignment |-> e]

ReturnStmt(e) == [kind |-> "Return", HasArgument |-> TRUE, Argument |-> e]

ReturnNothing == [kind |-> "Return", HasArgument |-> FALSE, Argument |-> IntLiteral(0)]

PrintStmt(e) == [kind |-> "Print", Argument |-> e]

Clause(cond, body) == [Condition |-> cond, Body |-> body]

IfElse(ifClause, elifClauses, elseClause) ==
  [kind |-> "If", IfClause |-> ifClause, ElifClauses |-> elifClauses,
   HasElse |-> TRUE, ElseClause |-> elseClause]

IfOnly(ifClause, elifClauses) ==
  [kind |-> "If", IfClause |-> ifClause, ElifClauses |-> elifClauses,
   HasElse |-> FALSE, ElseClause |-> <<>>]

\* LocalRecord and UpvalueRecord (frontend/scope.go)
Param(name, i) == [Name |-> name, IsParameter |-> TRUE, LookupIndex |-> i]

Local(name, i) == [Name |-> name, IsParameter |-> FALSE, LookupIndex |-> i]

Upvalue(name, localToParent, i) ==
  [Name |-> name, LocalToParent |-> localToParent, LookupIndex |-> i]

FuncLiteral(locals, upvalues, body) ==
  [kind |-> "Func", Locals |-> locals, Upvalues |-> upvalues, Body |-> body]

ProgramNode(locals, statements) == [Locals |-> locals, Statements |-> statements]

(***************************************************************************)
(* Programs: the ASTs the front-end hands to Compile                       *)
(***************************************************************************)
\* Each entry is [name, ast, expect, argValues, truths]: the AST, the lines
\* the language semantics make the program print (as Values; NoExpectation
\* when it runs forever), for the argument-passing programs the argument
\* values of the call to the first function literal, and for the if programs
\* the truth value of each condition in source order.
NoExpectation == <<"none">>

Entry(name, ast, expect) ==
  [name |-> name, ast |-> ast, expect |-> expect, argValues |-> <<>>,
   truths |-> <<>>]

\* print 1 + 2;
Scenario1Program ==
  ProgramNode(<<>>, <<PrintStmt(BinaryExpr("+", IntLiteral(1), IntLiteral(2)))>>)

\* let f := fn(x) { return x * x; }; print f(7);
Scenario3Program ==
  ProgramNode(<<Local("f", 0)>>,
    << DeclarationStmt("f",
         FuncLiteral(<<Param("x", 0)>>, <<>>,
           <<ReturnStmt(BinaryExpr("*", IdentExpr("x"), IdentExpr("x")))>>)),
       PrintStmt(DispatchExpr(IdentExpr("f"), <<IntLiteral(7)>>)) >>)

\* let fact := fn(n) { if n <= 1: return 1; end  return n * fact(n - 1); };
\* print fact(5);
FactProgram ==
  ProgramNode(<<Local("fact", 0)>>,
    << DeclarationStmt("fact",
         FuncLiteral(<<Param("n", 0)>>, <<Upvalue("fact", TRUE, 0)>>,
           << IfOnly(Clause(BinaryExpr("<=", IdentExpr("n"), IntLiteral(1)),
                            <<ReturnStmt(IntLiteral(1))>>), <<>>),
              ReturnStmt(BinaryExpr("*", IdentExpr("n"),
                DispatchExpr(IdentExpr("fact"),
                  <<BinaryExpr("-", IdentExpr("n"), IntLiteral(1))>>))) >>)),
       PrintStmt(DispatchExpr(IdentExpr("fact"), <<IntLiteral(5)>>)) >>)

\* fn() { n := n + 1; return n; }, n an upvalue
IncrementClosure(localToParent) ==
  FuncLiteral(<<>>, <<Upvalue("n", localToParent, 0)>>,
    << AssignmentStmt("n", BinaryExpr("+", IdentExpr("n"), IntLiteral(1))),
       ReturnStmt(IdentExpr("n")) >>)

\* let newCounter := fn(n) { n := n - 1; return fn() { n := n + 1; return n; }; };
NewCounterDecl ==
  DeclarationStmt("newCounter",
    FuncLiteral(<<Param("n", 0)>>, <<>>,
      << AssignmentStmt("n", BinaryExpr("-", IdentExpr("n"), IntLiteral(1))),
         ReturnStmt(IncrementClosure(TRUE)) >>))

PrintCall(name) == PrintStmt(DispatchExpr(IdentExpr(name), <<>>))

\* the closures example of the README
CounterProgram ==
  ProgramNode(<<Local("newCounter", 0), Local("c1", 1), Local("c2", 2)>>,
    << NewCounterDecl,
       DeclarationStmt("c1", DispatchExpr(IdentExpr("newCounter"), <<IntLiteral(1)>>)),
       DeclarationStmt("c2", DispatchExpr(IdentExpr("newCounter"), <<IntLiteral(10)>>)),
       PrintCall("c1"), PrintCall("c1"), PrintCall("c2"), PrintCall("c2"),
       PrintCall("c1") >>)

\* let a := 1; let c1 := newCounter(a); let c2 := newCounter(a);
\* print c1(); print c2(); print c1(); print a;
SharedArgumentProgram ==
  ProgramNode(<<Local("newCounter", 0), Local("a", 1), Local("c1", 2),
                Local("c2", 3)>>,
    << NewCounterDecl,
       DeclarationStmt("a", IntLiteral(1)),
       DeclarationStmt("c1", DispatchExpr(IdentExpr("newCounter"), <<IdentExpr("a")>>)),
       DeclarationStmt("c2", DispatchExpr(IdentExpr("newCounter"), <<IdentExpr("a")>>)),
       PrintCall("c1"), PrintCall("c2"), PrintCall("c1"),
       PrintStmt(IdentExpr("a")) >>)

\* let mk := fn() { let n := 0; let inc := fn() { n := n + 1; return n; };
\*                  return inc(); };  print mk(); print mk();
MkProgram ==
  ProgramNode(<<Local("mk", 0)>>,
    << DeclarationStmt("mk",
         FuncLiteral(<<Local("n", 0), Local("inc", 1)>>, <<>>,
           << DeclarationStmt("n", IntLiteral(0)),
              DeclarationStmt("inc", IncrementClosure(TRUE)),
              ReturnStmt(DispatchExpr(IdentExpr("inc"), <<>>)) >>)),
       PrintCall("mk"), PrintCall("mk") >>)

\* let mk := fn() { let n := 0; let inc := fn() { n := n + 1; return n; };
\*                  let get := fn() { return n; };
\*                  let a := inc(); let b := inc(); return get(); };
\* print mk();
SiblingProgram ==
  ProgramNode(<<Local("mk", 0)>>,
    << DeclarationStmt("mk",
         FuncLiteral(<<Local("n", 0), Local("inc", 1), Local("get", 2),
                       Local("a", 3), Local("b", 4)>>, <<>>,
           << DeclarationStmt("n", IntLiteral(0)),
              DeclarationStmt("inc", IncrementClosure(TRUE)),
              DeclarationStmt("get",
                FuncLiteral(<<>>, <<Upvalue("n", TRUE, 0)>>,
                  <<ReturnStmt(IdentExpr("n"))>>)),
              DeclarationStmt("a", DispatchExpr(IdentExpr("inc"), <<>>)),
              DeclarationStmt("b", DispatchExpr(IdentExpr("inc"), <<>>)),
              ReturnStmt(DispatchExpr(IdentExpr("get"), <<>>)) >>)),
       PrintCall("mk") >>)

\* let mk := fn() { let n := 0;
\*                  let outer := fn() { let inner := fn() { n := n + 1; return n; };
\*                                      return inner(); };
\*                  let r := outer(); return n + r; };
\* print mk();
NestedProgram ==
  ProgramNode(<<Local("mk", 0)>>,
    << DeclarationStmt("mk",
         FuncLiteral(<<Local("n", 0), Local("outer", 1), Local("r", 2)>>, <<>>,
           << DeclarationStmt("n", IntLiteral(0)),
              DeclarationStmt("outer",
                FuncLiteral(<<Local("inner", 0)>>, <<Upvalue("n", TRUE, 0)>>,
                  << DeclarationStmt("inner", IncrementClosure(FALSE)),
                     ReturnStmt(DispatchExpr(IdentExpr("inner"), <<>>)) >>)),
              DeclarationStmt("r", DispatchExpr(IdentExpr("outer"), <<>>)),
              ReturnStmt(BinaryExpr("+", IdentExpr("n"), IdentExpr("r"))) >>)),
       PrintCall("mk") >>)

\* let mk := fn() { let n := 0; let five := 5; let get := fn() { return n; };
\*                  n := <write>; return get(); };
\* print mk();
ParentWriteProgram(write) ==
  ProgramNode(<<Local("mk", 0)>>,
    << DeclarationStmt("mk",
         FuncLiteral(<<Local("n", 0), Local("five", 1), Local("get", 2)>>, <<>>,
           << DeclarationStmt("n", IntLiteral(0)),
              DeclarationStmt("five", IntLiteral(5)),
              DeclarationStmt("get",
                FuncLiteral(<<>>, <<Upvalue("n", TRUE, 0)>>,
                  <<ReturnStmt(IdentExpr("n"))>>)),
              AssignmentStmt("n", write),
              ReturnStmt(DispatchExpr(IdentExpr("get"), <<>>)) >>)),
       PrintCall("mk") >>)

\* let f := fn(a) { a := a + 1; return a; }; let x := 1; let y := f(x);
\* print x; print y;
MutateParameterProgram ==
  ProgramNode(<<Local("f", 0), Local("x", 1), Local("y", 2)>>,
    << DeclarationStmt("f",
         FuncLiteral(<<Param("a", 0)>>, <<>>,
           << AssignmentStmt("a", BinaryExpr("+", IdentExpr("a"), IntLiteral(1))),
              ReturnStmt(IdentExpr("a")) >>)),
       DeclarationStmt("x", IntLiteral(1)),
       DeclarationStmt("y", DispatchExpr(IdentExpr("f"), <<IdentExpr("x")>>)),
       PrintStmt(IdentExpr("x")),
       PrintStmt(IdentExpr("y")) >>)

\* let f := fn(a) { let b := a + 1; if b == 3: return b; end  return a * b; };
\* let g := fn(a) { return f(a); };
\* let y := f(2); print y; print g(3);
ReturnProgram ==
  ProgramNode(<<Local("f", 0), Local("g", 1), Local("y", 2)>>,
    << DeclarationStmt("f",
         FuncLiteral(<<Param("a", 0), Local("b", 1)>>, <<>>,
           << DeclarationStmt("b", BinaryExpr("+", IdentExpr("a"), IntLiteral(1))),
              IfOnly(Clause(BinaryExpr("==", IdentExpr("b"), IntLiteral(3)),
                            <<ReturnStmt(IdentExpr("b"))>>), <<>>),
              ReturnStmt(BinaryExpr("*", IdentExpr("a"), IdentExpr("b"))) >>)),
       DeclarationStmt("g",
         FuncLiteral(<<Param("a", 0)>>, <<Upvalue("f", TRUE, 0)>>,
           <<ReturnStmt(DispatchExpr(IdentExpr("f"), <<IdentExpr("a")>>))>>)),
       DeclarationStmt("y", DispatchExpr(IdentExpr("f"), <<IntLiteral(2)>>)),
       PrintStmt(IdentExpr("y")),
       PrintStmt(DispatchExpr(IdentExpr("g"), <<IntLiteral(3)>>)) >>)

\* let f := fn(g) { return g(g); }; print f(f);
SelfCallProgram ==
  ProgramNode(<<Local("f", 0)>>,
    << DeclarationStmt("f",
         FuncLiteral(<<Param("g", 0)>>, <<>>,
           <<ReturnStmt(DispatchExpr(IdentExpr("g"), <<IdentExpr("g")>>))>>)),
       PrintStmt(DispatchExpr(IdentExpr("f"), <<IdentExpr("f")>>)) >>)

\* let f := fn(a) { if a == 1: return 10; elif a == 2: return 20;
\*                  else: return 30; end };
\* print f(1); print f(2); print f(3);
BranchInCalleeProgram ==
  ProgramNode(<<Local("f", 0)>>,
    << DeclarationStmt("f",
         FuncLiteral(<<Param("a", 0)>>, <<>>,
           << IfElse(Clause(BinaryExpr("==", IdentExpr("a"), IntLiteral(1)),
                            <<ReturnStmt(IntLiteral(10))>>),
                     <<Clause(BinaryExpr("==", IdentExpr("a"), IntLiteral(2)),
                              <<ReturnStmt(IntLiteral(20))>>)>>,
                     <<ReturnStmt(IntLiteral(30))>>) >>)),
       PrintStmt(DispatchExpr(IdentExpr("f"), <<IntLiteral(1)>>)),
       PrintStmt(DispatchExpr(IdentExpr("f"), <<IntLiteral(2)>>)),
       PrintStmt(DispatchExpr(IdentExpr("f"), <<IntLiteral(3)>>)) >>)

\* let f := fn() { print 1; }; f(); print 2;
FallThroughProgram ==
  ProgramNode(<<Local("f", 0)>>,
    << DeclarationStmt("f",
         FuncLiteral(<<>>, <<>>, <<PrintStmt(IntLiteral(1))>>)),
       DispatchExpr(IdentExpr("f"), <<>>),
       PrintStmt(IntLiteral(2)) >>)

\* an if statement with if statements in its if, elif and else bodies
NestedIfProgram(a, b) ==
  ProgramNode(<<>>,
    << IfElse(Clause(BoolLiteral(a),
                     << IfOnly(Clause(BoolLiteral(b), <<PrintStmt(IntLiteral(1))>>), <<>>),
                        PrintStmt(IntLiteral(2)) >>),
              << Clause(BoolLiteral(b),
                        << IfElse(Clause(BoolLiteral(a), <<PrintStmt(IntLiteral(3))>>),
                                  <<>>,
                                  <<PrintStmt(IntLiteral(4))>>) >>) >>,
              << IfOnly(Clause(BoolLiteral(b), <<PrintStmt(IntLiteral(5))>>),
                        <<Clause(BoolLiteral(TRUE), <<PrintStmt(IntLiteral(6))>>)>>) >>),
       PrintStmt(IntLiteral(9)) >>)

\* let a := fn() { let b := fn() { let c := fn() { return 1; }; return c(); };
\*                 let e := fn() { return 2; };  return b(); };
\* let d := fn() { return 4; };  print a(); print d();
LiteralsProgram ==
  ProgramNode(<<Local("a", 0), Local("d", 1)>>,
    << DeclarationStmt("a",
         FuncLiteral(<<Local("b", 0), Local("e", 1)>>, <<>>,
           << DeclarationStmt("b",
                FuncLiteral(<<Local("c", 0)>>, <<>>,
                  << DeclarationStmt("c",
                       FuncLiteral(<<>>, <<>>, <<ReturnStmt(IntLiteral(1))>>)),
                     ReturnStmt(DispatchExpr(IdentExpr("c"), <<>>)) >>)),
              DeclarationStmt("e",
                FuncLiteral(<<>>, <<>>, <<ReturnStmt(IntLiteral(2))>>)),
              ReturnStmt(DispatchExpr(IdentExpr("b"), <<>>)) >>)),
       DeclarationStmt("d",
         FuncLiteral(<<>>, <<>>, <<ReturnStmt(IntLiteral(4))>>)),
       PrintCall("a"), PrintCall("d") >>)

Ints(values) == [i \in 1..Len(values) |-> [k |-> "int", v |-> values[i], d |-> 1]]

FixedPrograms ==
  << Entry("scenario1", Scenario1Program, Ints(<<3>>)),
     Entry("scenario3", Scenario3Program, Ints(<<49>>)),
     Entry("fact", FactProgram, Ints(<<120>>)),
     Entry("counter", CounterProgram, Ints(<<1, 2, 10, 11, 3>>)),
     Entry("sharedArgument", SharedArgumentProgram, Ints(<<1, 1, 2, 1>>)),
     Entry("mk", MkProgram, Ints(<<1, 1>>)),
     Entry("sibling", SiblingProgram, Ints(<<2>>)),
     Entry("nested", NestedProgram, Ints(<<2>>)),
     Entry("parentWriteConst", ParentWriteProgram(IntLiteral(5)), Ints(<<5>>)),
     Entry("parentWriteSum",
           ParentWriteProgram(BinaryExpr("+", IdentExpr("n"), IntLiteral(5))),
           Ints(<<5>>)),
     Entry("parentWriteMove", ParentWriteProgram(IdentExpr("five")), Ints(<<5>>)),
     Entry("fallThrough", FallThroughProgram, Ints(<<1, 2>>)),
     Entry("nestedIf", NestedIfProgram(TRUE, TRUE), Ints(<<1, 2, 9>>)),
     Entry("nestedIf", NestedIfProgram(TRUE, FALSE), Ints(<<2, 9>>)),
     Entry("nestedIf", NestedIfProgram(FALSE, TRUE), Ints(<<4, 9>>)),
     Entry("nestedIf", NestedIfProgram(FALSE, FALSE), Ints(<<6, 9>>)),
     Entry("mutateParameter", MutateParameterProgram, Ints(<<1, 2>>)),
     Entry("return", ReturnProgram, Ints(<<3, 12>>)),
     Entry("selfCall", SelfCallProgram, NoExpectation),
     Entry("branchInCallee", BranchInCalleeProgram, Ints(<<10, 20, 30>>)),
     Entry("literals", LiteralsProgram, Ints(<<1, 4>>)) >>

(***************************************************************************)
(* Program families                                                        *)
(***************************************************************************)
\* bounds of the families
MaxElifs == 2

MaxArgs == 2

RECURSIVE SeqsOver(_, _)
\* all sequences of length n over the set S, in a fixed order
SeqsOver(S, n) ==
  IF n = 0 THEN {<<>>}
  ELSE {Append(t, x) : t \in SeqsOver(S, n - 1), x \in S}

RECURSIVE SetToSeq(_)
SetToSeq(S) ==
  IF S = {} THEN <<>>
  ELSE LET x == CHOOSE y \in S : TRUE IN <<x>> \o SetToSeq(S \ {x})

\* let x := 2; let yes := true; let no := false;
\* if c1: print 10; elif c2: print 20; ... else: print 90; end  print 99;
\* each condition written in the given shape with the given truth value
ConditionOf(shape, truth) ==
  CASE shape = "literal" -> BoolLiteral(truth)
    [] shape = "comparison" ->
         BinaryExpr("==", IdentExpr("x"), IntLiteral(IF truth THEN 2 ELSE 1))
    [] shape = "local" -> IdentExpr(IF truth THEN "yes" ELSE "no")

IfProgram(shape, truths, hasElse) ==
  LET clause(i) == Clause(ConditionOf(shape, truths[i]),
                          <<PrintStmt(IntLiteral(10 * i))>>)
      elifs == [i \in 1..(Len(truths) - 1) |-> clause(i + 1)]
      stmt == IF hasElse
                THEN IfElse(clause(1), elifs, <<PrintStmt(IntLiteral(90))>>)
                ELSE IfOnly(clause(1), elifs)
  IN  ProgramNode(<<Local("x", 0), Local("yes", 1), Local("no", 2)>>,
        << DeclarationStmt("x", IntLiteral(2)),
           DeclarationStmt("yes", BoolLiteral(TRUE)),
           DeclarationStmt("no", BoolLiteral(FALSE)),
           stmt,
           PrintStmt(IntLiteral(99)) >>)

\* what the selection rule prints: the first true clause, else the else
IfExpectation(truths, hasElse) ==
  LET trues == {i \in 1..Len(truths) : truths[i]}
      first == CHOOSE i \in trues : \A j \in trues : i <= j
  IN  IF trues # {} THEN Ints(<<10 * first, 99>>)
      ELSE IF hasElse THEN Ints(<<90, 99>>)
      ELSE Ints(<<99>>)

IfShapes == {"literal", "comparison", "local"}

IfCases ==
  {<<shape, truths, hasElse>> :
     shape \in IfShapes,
     truths \in UNION {SeqsOver(BOOLEAN, n) : n \in 1..(MaxElifs + 1)},
     hasElse \in BOOLEAN}

IfPrograms ==
  LET group(shape, hasElse) ==
        SetToSeq({c \in IfCases : c[1] = shape /\ c[3] = hasElse})
      cases == group("literal", FALSE) \o group("literal", TRUE)
                 \o group("comparison", FALSE) \o group("comparison", TRUE)
                 \o group("local", FALSE) \o group("local", TRUE)
  IN  [i \in 1..Len(cases) |->
         [name |-> "if",
          ast |-> IfProgram(cases[i][1], cases[i][2], cases[i][3]),
          expect |-> IfExpectation(cases[i][2], cases[i][3]),
          argValues |-> <<>>,
          truths |-> cases[i][2]]]

\* let x := 7; let f := fn(a, b) { return a; };
\* let g := fn(h) { let y := 4; return h(<args>); };  print g(f);
\* each argument a literal, the local y, the upvalue x or the expression y + 1
ArgumentOf(kind) ==
  CASE kind = "literal" -> IntLiteral(3)
    [] kind = "local" -> IdentExpr("y")
    [] kind = "upvalue" -> IdentExpr("x")
    [] kind = "nested" -> BinaryExpr("+", IdentExpr("y"), IntLiteral(1))

ArgumentValue(kind) ==
  CASE kind = "literal" -> 3
    [] kind = "local" -> 4
    [] kind = "upvalue" -> 7
    [] kind = "nested" -> 5

ArgumentKinds == {"literal", "local", "upvalue", "nested"}

ParamNames == <<"a", "b", "c">>

ArgumentProgram(kinds) ==
  ProgramNode(<<Local("x", 0), Local("f", 1), Local("g", 2)>>,
    << DeclarationStmt("x", IntLiteral(7)),
       DeclarationStmt("f",
         FuncLiteral([i \in 1..Len(kinds) |-> Param(ParamNames[i], i - 1)], <<>>,
           <<ReturnStmt(IdentExpr("a"))>>)),
       DeclarationStmt("g",
         FuncLiteral(<<Param("h", 0), Local("y", 1)>>,
           IF \E i \in 1..Len(kinds) : kinds[i] = "upvalue"
             THEN <<Upvalue("x", TRUE, 0)>> ELSE <<>>,
           << DeclarationStmt("y", IntLiteral(4)),
              ReturnStmt(DispatchExpr(IdentExpr("h"),
                [i \in 1..Len(kinds) |-> ArgumentOf(kinds[i])])) >>)),
       PrintStmt(DispatchExpr(IdentExpr("g"), <<IdentExpr("f")>>)) >>)

ArgumentCases == UNION {SeqsOver(ArgumentKinds, n) : n \in 1..MaxArgs}

ArgumentPrograms ==
  LET cases == SetToSeq(ArgumentCases)
  IN  [i \in 1..Len(cases) |->
         [name |-> "argument",
          ast |-> ArgumentProgram(cases[i]),
          expect |-> Ints(<<ArgumentValue(cases[i][1])>>),
          argValues |-> [j \in 1..Len(cases[i]) |-> ArgumentValue(cases[i][j])],
          truths |-> <<>>]]

\* the operand shapes of a binary expression, as a left and as a right
\* operand, inside a function with the local x = 7, the upvalue y = 100 and
\* the local function f(a) = a * 10
OperandShapes == <<"literal", "local", "upvalue", "binary", "call">>

LeftOperand(shape) ==
  CASE shape = "literal" -> [e |-> IntLiteral(50), v |-> 50]
    [] shape = "local" -> [e |-> IdentExpr("x"), v |-> 7]
    [] shape = "upvalue" -> [e |-> IdentExpr("y"), v |-> 100]
    [] shape = "binary" -> [e |-> BinaryExpr("+", IdentExpr("x"), IntLiteral(1)), v |-> 8]
    [] shape = "call" -> [e |-> DispatchExpr(IdentExpr("f"), <<IntLiteral(3)>>), v |-> 30]

RightOperand(shape) ==
  CASE shape = "literal" -> [e |-> IntLiteral(2), v |-> 2]
    [] shape = "local" -> [e |-> IdentExpr("x"), v |-> 7]
    [] shape = "upvalue" -> [e |-> IdentExpr("y"), v |-> 100]
    [] shape = "binary" -> [e |-> BinaryExpr("*", IdentExpr("x"), IntLiteral(2)), v |-> 14]
    [] shape = "call" -> [e |-> DispatchExpr(IdentExpr("f"), <<IntLiteral(1)>>), v |-> 10]

\* let y := 100; let h := fn() { let x := 7; let f := fn(a) { return a * 10; };
\*   print l - r; return 0; }; h();
OperandProgram(l, r) ==
  ProgramNode(<<Local("y", 0), Local("h", 1)>>,
    << DeclarationStmt("y", IntLiteral(100)),
       DeclarationStmt("h",
         FuncLiteral(<<Local("x", 0), Local("f", 1)>>, <<Upvalue("y", TRUE, 0)>>,
           << DeclarationStmt("x", IntLiteral(7)),
              DeclarationStmt("f",
                FuncLiteral(<<Param("a", 0)>>, <<>>,
                  <<ReturnStmt(BinaryExpr("*", IdentExpr("a"), IntLiteral(10)))>>)),
              PrintStmt(BinaryExpr("-", l, r)),
              ReturnStmt(IntLiteral(0)) >>)),
       DispatchExpr(IdentExpr("h"), <<>>) >>)

OperandPrograms ==
  [i \in 1..(Len(OperandShapes) * Len(OperandShapes)) |->
     LET l == LeftOperand(OperandShapes[((i - 1) \div Len(OperandShapes)) + 1])
         r == RightOperand(OperandShapes[((i - 1) % Len(OperandShapes)) + 1])
     IN  [name |-> "operands", ast |-> OperandProgram(l.e, r.e),
          expect |-> Ints(<<l.v - r.v>>), argValues |-> <<>>, truths |-> <<>>,
          shapes |-> <<OperandShapes[((i - 1) \div Len(OperandShapes)) + 1],
                       OperandShapes[((i - 1) % Len(OperandShapes)) + 1]>>,
          operands |-> <<l.v, r.v>>]]

\* the slots of a frame's Registers array (make([]*Register, 256))
NumRegisters == 256

\* the statements that may stand before a print statement
PrefixKinds == <<"none", "decl", "print", "call0", "callLiteral", "callLocal">>

PrefixOf(kind) ==
  CASE kind = "none" -> <<>>
    [] kind = "decl" -> <<DeclarationStmt("y", IntLiteral(1))>>
    [] kind = "print" -> <<PrintStmt(IntLiteral(9))>>
    [] kind = "call0" -> <<DispatchExpr(IdentExpr("g"), <<>>)>>
    [] kind = "callLiteral" -> <<DispatchExpr(IdentExpr("f"), <<IntLiteral(7)>>)>>
    [] kind = "callLocal" -> <<DispatchExpr(IdentExpr("f"), <<IdentExpr("x")>>)>>

\* expressions of integer literals and binary operators, with their values
LiteralExpressions ==
  << [e |-> BinaryExpr("+", IntLiteral(1), IntLiteral(2)), v |-> 3],
     [e |-> BinaryExpr("*", IntLiteral(2),
                       BinaryExpr("+", IntLiteral(3), IntLiteral(4))), v |-> 14] >>

\* let f := fn(a) { return a; }; let g := fn() { return 0; }; let x := 5;
\* <prefix>  print e; print x;
PositionProgram(prefix, e) ==
  ProgramNode(<<Local("f", 0), Local("g", 1), Local("x", 2), Local("y", 3)>>,
    << DeclarationStmt("f",
         FuncLiteral(<<Param("a", 0)>>, <<>>, <<ReturnStmt(IdentExpr("a"))>>)),
       DeclarationStmt("g",
         FuncLiteral(<<>>, <<>>, <<ReturnStmt(IntLiteral(0))>>)),
       DeclarationStmt("x", IntLiteral(5)) >>
    \o prefix
    \o << PrintStmt(e), PrintStmt(IdentExpr("x")) >>)

PositionPrograms ==
  [i \in 1..(Len(PrefixKinds) * Len(LiteralExpressions)) |->
     LET kind == PrefixKinds[((i - 1) \div Len(LiteralExpressions)) + 1]
         expr == LiteralExpressions[((i - 1) % Len(LiteralExpressions)) + 1]
     IN  [name |-> "position", ast |-> PositionProgram(PrefixOf(kind), expr.e),
          expect |-> Ints((IF kind = "print" THEN <<9>> ELSE <<>>) \o <<expr.v, 5>>),
          argValues |-> <<>>, truths |-> <<>>,
          prefix |-> kind, value |-> expr.v,
          printAt |-> IF kind = "print" THEN 2 ELSE 1]]

\* a main body with nLocals local variables, whose statements are
\* print 1; print 2; ... print nPrints;
EdgeProgram(nLocals, nPrints) ==
  ProgramNode([i \in 1..nLocals |-> Local(ToString(i), i - 1)],
              [i \in 1..nPrints |-> PrintStmt(IntLiteral(i))])

\* reserved registers at the upper edge of the register file: 255 with one
\* statement, 254 with three
EdgePrograms ==
  << [name |-> "registerEdge", ast |-> EdgeProgram(NumRegisters - 2, 1),
      expect |-> Ints(<<1>>), argValues |-> <<>>, truths |-> <<>>,
      reserved |-> NumRegisters - 1],
     [name |-> "registerEdge", ast |-> EdgeProgram(NumRegisters - 3, 3),
      expect |-> Ints(<<1, 2, 3>>), argValues |-> <<>>, truths |-> <<>>,
      reserved |-> NumRegisters - 2] >>

\* the position of x in seq, counted from 0
IndexIn(seq, x) == (CHOOSE i \in 1..Len(seq) : seq[i] = x) - 1

\* Scope.registerUpvalue: the record of the upvalue `name` of a scope whose
\* parent has the registered variables parentVariables and the registered
\* upvalues parentUpvalues (after name is registered there)
registerUpvalue(name, parentVariables, parentUpvalues) ==
  IF \E i \in 1..Len(parentVariables) : parentVariables[i] = name
    THEN Upvalue(name, TRUE, IndexIn(parentVariables, name))
    ELSE Upvalue(name, FALSE, IndexIn(parentUpvalues, name))

\* checkFuncBody lists the records by ranging over the map funcScope.upvalues,
\* in an order the Go runtime chooses: `order` is that order
ListedUpvalues(records, order) == [i \in 1..Len(order) |-> records[order[i]]]

\* let mk := fn() { let x := 1; let y := 10;
\*                  let outer := fn() { [let t := y;]
\*                                      let inner := fn() { x := x + 1; return x; };
\*                                      let r := inner(); return r [+ y | + t]; };
\*                  let r := outer(); return x + r; };
\* print mk();
\* registered is the order in which outer's scope registers its upvalues
InheritedProgram(registered, order) ==
  LET mkVariables == <<"x", "y", "outer", "r">>
      outerRecords == [i \in 1..Len(registered) |->
                         registerUpvalue(registered[i], mkVariables, <<>>)]
      inner == FuncLiteral(<<>>, <<registerUpvalue("x", <<>>, registered)>>,
                 << AssignmentStmt("x", BinaryExpr("+", IdentExpr("x"), IntLiteral(1))),
                    ReturnStmt(IdentExpr("x")) >>)
      outerVariables == IF registered[1] = "y" THEN <<"t", "inner", "r">>
                        ELSE <<"inner", "r">>
      outerBody ==
        (IF registered[1] = "y" THEN <<DeclarationStmt("t", IdentExpr("y"))>> ELSE <<>>)
        \o << DeclarationStmt("inner", inner),
              DeclarationStmt("r", DispatchExpr(IdentExpr("inner"), <<>>)),
              ReturnStmt(IF Len(registered) = 1 THEN IdentExpr("r")
                         ELSE BinaryExpr("+", IdentExpr("r"),
                                IdentExpr(IF registered[1] = "y" THEN "t" ELSE "y"))) >>
  IN  ProgramNode(<<Local("mk", 0)>>,
        << DeclarationStmt("mk",
             FuncLiteral([i \in 1..Len(mkVariables) |-> Local(mkVariables[i], i - 1)],
                         <<>>,
               << DeclarationStmt("x", IntLiteral(1)),
                  DeclarationStmt("y", IntLiteral(10)),
                  DeclarationStmt("outer",
                    FuncLiteral([i \in 1..Len(outerVariables) |->
                                   Local(outerVariables[i], i - 1)],
                                ListedUpvalues(outerRecords, order), outerBody)),
                  DeclarationStmt("r", DispatchExpr(IdentExpr("outer"), <<>>)),
                  ReturnStmt(BinaryExpr("+", IdentExpr("x"), IdentExpr("r"))) >>)),
           PrintCall("mk") >>)

\* every registration order of outer's upvalues and every order of listing
InheritedCases ==
  << [registered |-> <<"x">>, order |-> <<1>>],
     [registered |-> <<"x", "y">>, order |-> <<1, 2>>],
     [registered |-> <<"x", "y">>, order |-> <<2, 1>>],
     [registered |-> <<"y", "x">>, order |-> <<1, 2>>],
     [registered |-> <<"y", "x">>, order |-> <<2, 1>>] >>

InheritedPrograms ==
  [i \in 1..Len(InheritedCases) |->
     LET c == InheritedCases[i]
     IN  [name |-> "inherited", ast |-> InheritedProgram(c.registered, c.order),
          expect |-> Ints(IF Len(c.registered) = 1 THEN <<4>> ELSE <<14>>),
          argValues |-> <<>>, truths |-> <<>>,
          registered |-> c.registered, order |-> c.order]]

\* the static types a left operand is given, as Type.String() prints them,
\* and the operators of the builtin methods
LeftTypes == <<"Int", "Dec", "Bool", "Any", "(Int => Int)">>

BinaryOperators == <<"<", "<=", ">", ">=", "==", "+", "-", "*", "/", "&&">>

\* print 6 op 3;   print 1.5 op 0.5;   print true op false;
\* let f := fn(a) { return a op 3; }; print f(6);
\* let f := fn(a: Int): Int { return a; }; print f op f;
BinaryProgram(leftType, op) ==
  CASE leftType = "Int" ->
         ProgramNode(<<>>,
           <<PrintStmt(TypedBinaryExpr(leftType, op, IntLiteral(6), IntLiteral(3)))>>)
    [] leftType = "Dec" ->
         ProgramNode(<<>>,
           <<PrintStmt(TypedBinaryExpr(leftType, op, DecLiteral(3, 2), DecLiteral(1, 2)))>>)
    [] leftType = "Bool" ->
         ProgramNode(<<>>,
           <<PrintStmt(TypedBinaryExpr(leftType, op, BoolLiteral(TRUE),
                                       BoolLiteral(FALSE)))>>)
    [] leftType = "Any" ->
         ProgramNode(<<Local("f", 0)>>,
           << DeclarationStmt("f",
                FuncLiteral(<<Param("a", 0)>>, <<>>,
                  <<ReturnStmt(TypedBinaryExpr(leftType, op, IdentExpr("a"),
                                               IntLiteral(3)))>>)),
              PrintStmt(DispatchExpr(IdentExpr("f"), <<IntLiteral(6)>>)) >>)
    [] OTHER ->
         ProgramNode(<<Local("f", 0)>>,
           << DeclarationStmt("f",
                FuncLiteral(<<Param("a", 0)>>, <<>>, <<ReturnStmt(IdentExpr("a"))>>)),
              PrintStmt(TypedBinaryExpr(leftType, op, IdentExpr("f"),
                                        IdentExpr("f"))) >>)

BinaryPrograms ==
  [i \in 1..(Len(LeftTypes) * Len(BinaryOperators)) |->
     LET leftType == LeftTypes[((i - 1) \div Len(BinaryOperators)) + 1]
         op == BinaryOperators[((i - 1) % Len(BinaryOperators)) + 1]
     IN  [name |-> "binary", ast |-> BinaryProgram(leftType, op),
          expect |-> NoExpectation, argValues |-> <<>>, truths |-> <<>>,
          leftType |-> leftType, operator |-> op]]

Programs ==
  FixedPrograms \o IfPrograms \o ArgumentPrograms \o OperandPrograms
    \o PositionPrograms \o EdgePrograms \o InheritedPrograms \o BinaryPrograms

(***************************************************************************)
(* Hand-assembled prototypes: Execute(mainFunc, funcs) takes any           *)
(* FuncPrototype, so the interpreter is also run on bytecode assembled     *)
(* from Instruction values with Generate, without the compiler.            *)
(*                                                                         *)
(* An instruction is [name, args]: the struct of instructions.go and its   *)
(* fields in the order Generate writes them.  "Raw" stands for bytes no    *)
(* Generate method wrote.                                                  *)
(***************************************************************************)
Inst(name, args) == [name |-> name, args |-> args]

IntBinaryNames ==
  {"IntLT", "IntLTEq", "IntGT", "IntGTEq", "IntEq", "IntAdd", "IntSub",
   "IntMul", "IntDiv"}

DecBinaryNames ==
  {"DecLT", "DecLTEq", "DecGT", "DecGTEq", "DecEq", "DecAdd", "DecSub",
   "DecMul", "DecDiv"}

\* the opcode each Generate method writes first
OpcodeOf(name) ==
  CASE name = "Halt" -> OpcodeHalt
    [] name = "BoolConst" -> OpcodeBoolConst
    [] name = "IntConst" -> OpcodeIntConst
    [] name = "DecConst" -> OpcodeDecConst
    [] name = "StrConst" -> OpcodeStrConst
    [] name = "FuncConst" -> OpcodeFuncConst
    [] name = "Move" -> OpcodeMove
    [] name = "LoadUpVal" -> OpcodeLoadUpVal
    [] name = "SetUpVal" -> OpcodeSetUpVal
    [] name = "BrAlways" -> OpcodeBrAlways
    [] name = "BrTrue" -> OpcodeBrTrue
    [] name = "BrFalse" -> OpcodeBrFalse
    [] name = "Dispatch" -> OpcodeDispatch
    [] name = "Return" -> OpcodeReturn
    [] name = "Print" -> OpcodePrint
    [] name = "IntLT" -> OpcodeIntLT
    [] name = "IntLTEq" -> OpcodeIntLTEq
    [] name = "IntGT" -> OpcodeIntGT
    [] name = "IntGTEq" -> OpcodeIntGTEq
    [] name = "IntEq" -> OpcodeIntEq
    [] name = "IntAdd" -> OpcodeIntAdd
    [] name = "IntSub" -> OpcodeIntSub
    [] name = "IntMul" -> OpcodeIntMul
    [] name = "IntDiv" -> OpcodeIntDiv
    [] name = "IntNeg" -> OpcodeIntNeg
    [] name = "DecLT" -> OpcodeDecLT
    [] name = "DecLTEq" -> OpcodeDecLTEq
    [] name = "DecGT" -> OpcodeDecGT
    [] name = "DecGTEq" -> OpcodeDecGTEq
    [] name = "DecEq" -> OpcodeDecEq
    [] name = "DecAdd" -> OpcodeDecAdd
    [] name = "DecSub" -> OpcodeDecSub
    [] name = "DecMul" -> OpcodeDecMul
    [] name = "DecDiv" -> OpcodeDecDiv
    [] name = "DecNeg" -> OpcodeDecNeg

\* inst.Generate()
Generate(inst) ==
  CASE inst.name = "Raw" -> inst.args
    [] inst.name = "Halt" -> GenHalt
    [] inst.name = "BoolConst" -> GenBoolConst(inst.args[1], inst.args[2])
    [] inst.name = "IntConst" -> GenIntConst(inst.args[1], inst.args[2])
    [] inst.name = "DecConst" -> GenDecConst(inst.args[1], inst.args[2])
    [] inst.name = "StrConst" -> GenStrConst(inst.args[1], inst.args[2])
    [] inst.name = "FuncConst" -> GenFuncConst(inst.args[1], inst.args[2])
    [] inst.name = "Move" -> GenMove(inst.args[1], inst.args[2])
    [] inst.name = "LoadUpVal" -> GenLoadUpVal(inst.args[1], inst.args[2])
    [] inst.name = "SetUpVal" -> GenSetUpVal(inst.args[1], inst.args[2])
    [] inst.name = "BrAlways" -> GenBrAlways(inst.args[1])
    [] inst.name = "BrTrue" -> GenBrTrue(inst.args[1], inst.args[2])
    [] inst.name = "BrFalse" -> GenBrFalse(inst.args[1], inst.args[2])
    [] inst.name = "Dispatch" -> GenDispatch(inst.args[1], inst.args[2])
    [] inst.name = "Return" -> GenReturn(inst.args[1])
    [] inst.name = "Print" -> GenPrint(inst.args[1])
    [] inst.name \in IntBinaryNames ->
         GenIntBinary(OpcodeOf(inst.name), inst.args[1], inst.args[2], inst.args[3])
    [] inst.name = "IntNeg" -> GenIntNeg(inst.args[1], inst.args[2])
    [] inst.name \in DecBinaryNames ->
         GenDecBinary(OpcodeOf(inst.name), inst.args[1], inst.args[2], inst.args[3])
    [] inst.name = "DecNeg" -> GenDecNeg(inst.args[1], inst.args[2])

\* bytecode.Write(inst.Generate()...) for each instruction in turn
RECURSIVE Assemble(_)
Assemble(insts) ==
  IF insts = <<>> THEN <<>> ELSE Generate(Head(insts)) \o Assemble(Tail(insts))

\* a FuncPrototype with its instructions
Prototype(upvalues, constants, insts) ==
  [Upvalues |-> upvalues, Locals |-> <<>>, Constants |-> constants,
   Bytecode |-> Assemble(insts), insts |-> insts]

\* what a caller hands to Execute: the main prototype and the others
Assembly(name, main, others) == [name |-> name, mainFunc |-> main, funcs |-> others]

\* operand words at the edges of the 32-bit ranges and of the register file
BoundaryWords == <<0, 1, 255, 256, MaxInt32, 0 - 1, (0 - MaxInt32) - 1>>

\* the i-th tuple of n operand words
OperandTuple(n, i) ==
  [j \in 1..n |-> BoundaryWords[((i + j - 2) % Len(BoundaryWords)) + 1]]

\* the instructions whose fields are all words, and the number of fields
WordInstNames ==
  <<"IntConst", "StrConst", "FuncConst", "Move", "LoadUpVal", "SetUpVal",
    "BrAlways", "BrTrue", "BrFalse", "Dispatch", "Return", "Print",
    "IntLT", "IntLTEq", "IntGT", "IntGTEq", "IntEq", "IntAdd", "IntSub",
    "IntMul", "IntDiv", "IntNeg",
    "DecLT", "DecLTEq", "DecGT", "DecGTEq", "DecEq", "DecAdd", "DecSub",
    "DecMul", "DecDiv", "DecNeg">>

Arity(name) ==
  IF name = "Halt" THEN 0
  ELSE IF name \in {"BrAlways", "Return", "Print"} THEN 1
  ELSE IF name \in IntBinaryNames \cup DecBinaryNames THEN 3
  ELSE 2

DecSamples == <<Dec(0, 1), Dec(1, 1), Dec(3, 2), Dec(0 - 9, 4), Dec(1, 8), Dec(100, 1), Dec(0 - 1, 1)>>

\* one instruction, then Halt
Single(inst) == Assembly("single", Prototype(<<>>, <<>>, <<inst, Inst("Halt", <<>>)>>), <<>>)

\* (without the branch to its own address, which never stops)
SingleInstructions ==
  SelectSeq(
    [i \in 1..(Len(WordInstNames) * Len(BoundaryWords)) |->
       LET name == WordInstNames[((i - 1) \div Len(BoundaryWords)) + 1]
       IN  Single(Inst(name, OperandTuple(Arity(name), ((i - 1) % Len(BoundaryWords)) + 1)))],
    LAMBDA a : a.mainFunc.insts[1] # Inst("BrAlways", <<0>>))
  \o [i \in 1..Len(BoundaryWords) |-> Single(Inst("BoolConst", <<TRUE, BoundaryWords[i]>>))]
  \o [i \in 1..Len(BoundaryWords) |-> Single(Inst("BoolConst", <<FALSE, BoundaryWords[i]>>))]
  \o [i \in 1..Len(DecSamples) |-> Single(Inst("DecConst", <<DecSamples[i], BoundaryWords[i]>>))]

\* every integer instruction on the operands l and r
IntegerAssembly(l, r) ==
  Assembly("integers", Prototype(<<>>, <<>>,
    <<Inst("IntConst", <<l, 1>>), Inst("IntConst", <<r, 2>>),
      Inst("IntLT", <<1, 2, 3>>), Inst("Print", <<3>>),
      Inst("IntLTEq", <<1, 2, 3>>), Inst("Print", <<3>>),
      Inst("IntGT", <<1, 2, 3>>), Inst("Print", <<3>>),
      Inst("IntGTEq", <<1, 2, 3>>), Inst("Print", <<3>>),
      Inst("IntEq", <<1, 2, 3>>), Inst("Print", <<3>>),
      Inst("IntAdd", <<1, 2, 4>>), Inst("Print", <<4>>),
      Inst("IntSub", <<1, 2, 4>>), Inst("Print", <<4>>),
      Inst("IntMul", <<1, 2, 4>>), Inst("Print", <<4>>),
      Inst("IntDiv", <<1, 2, 5>>), Inst("Print", <<5>>),
      Inst("IntDiv", <<1, 2, 4>>), Inst("Print", <<4>>),
      Inst("IntNeg", <<1, 6>>), Inst("Print", <<6>>),
      Inst("Halt", <<>>)>>), <<>>)

IntegerOperands ==
  <<<<6, 3>>, <<6, 0>>, <<7, 2>>, <<0, 5>>, <<0 - 8, 4>>, <<0, 0>>, <<3, 3>>,
    <<1, 0 - 3>>>>

\* every decimal instruction on the operands l and r
DecimalAssembly(l, r) ==
  Assembly("decimals", Prototype(<<>>, <<>>,
    <<Inst("DecConst", <<l, 1>>), Inst("DecConst", <<r, 2>>),
      Inst("DecLT", <<1, 2, 3>>), Inst("Print", <<3>>),
      Inst("DecLTEq", <<1, 2, 3>>), Inst("Print", <<3>>),
      Inst("DecGT", <<1, 2, 3>>), Inst("Print", <<3>>),
      Inst("DecGTEq", <<1, 2, 3>>), Inst("Print", <<3>>),
      Inst("DecEq", <<1, 2, 3>>), Inst("Print", <<3>>),
      Inst("DecAdd", <<1, 2, 4>>), Inst("Print", <<4>>),
      Inst("DecSub", <<1, 2, 4>>), Inst("Print", <<4>>),
      Inst("DecMul", <<1, 2, 4>>), Inst("Print", <<4>>),
      Inst("DecDiv", <<1, 2, 4>>), Inst("Print", <<4>>),
      Inst("DecNeg", <<1, 5>>), Inst("Print", <<5>>),
      Inst("Halt", <<>>)>>), <<>>)

DecimalOperands == <<<<Dec(3, 2), Dec(1, 2)>>, <<Dec(1, 1), Dec(0, 1)>>, <<Dec(0 - 9, 4), Dec(3, 2)>>>>

\* the three branches, each taken and not taken
BranchAssembly(test) ==
  Assembly("branches", Prototype(<<>>, <<>>,
    <<Inst("BoolConst", <<test, 1>>),           \* 0
      Inst("BrTrue", <<1, 28>>),                \* 9
      Inst("Print", <<1>>),                     \* 18
      Inst("BrAlways", <<28>>),                 \* 23
      Inst("BrFalse", <<1, 42>>),               \* 28
      Inst("Print", <<1>>),                     \* 37
      Inst("Halt", <<>>)>>), <<>>)              \* 42

\* a closure over register 1 of the main frame, a string constant and Move
ClosureAssembly ==
  Assembly("closure",
    Prototype(<<>>, <<7>>,
      <<Inst("IntConst", <<5, 1>>), Inst("StrConst", <<0, 4>>), Inst("Print", <<4>>),
        Inst("FuncConst", <<0, 2>>), Inst("Dispatch", <<2, 3>>),
        Inst("Move", <<0, 5>>), Inst("Print", <<5>>), Inst("Print", <<1>>),
        Inst("Halt", <<>>)>>),
    <<Prototype(<<[Name |-> "x", LocalToParent |-> TRUE, LookupIndex |-> 0]>>, <<>>,
        <<Inst("LoadUpVal", <<0, 1>>), Inst("IntAdd", <<1, 1, 2>>),
          Inst("SetUpVal", <<2, 0>>), Inst("Return", <<1>>)>>)>>)

\* f(g, n): the closure calls itself through its parameter g, twice in a
\* row, until n is 0; main calls f(f, depth)
RecursionAssembly(depth) ==
  Assembly("recursion",
    Prototype(<<>>, <<>>,
      <<Inst("FuncConst", <<0, 1>>), Inst("IntConst", <<depth, 2>>),
        Inst("Dispatch", <<1, 1>>), Inst("Print", <<0>>), Inst("Halt", <<>>)>>),
    <<[Prototype(<<>>, <<>>,
         <<Inst("IntConst", <<0, 3>>),             \* 0
           Inst("IntEq", <<2, 3, 4>>),             \* 9
           Inst("BrTrue", <<4, 85>>),              \* 22
           Inst("IntConst", <<1, 5>>),             \* 31
           Inst("IntSub", <<2, 5, 7>>),            \* 40
           Inst("Move", <<1, 6>>),                 \* 53
           Inst("Dispatch", <<6, 6>>),             \* 62
           Inst("Dispatch", <<6, 6>>),             \* 71
           Inst("Return", <<0>>),                  \* 80
           Inst("Return", <<2>>)>>)                \* 85
        EXCEPT !.Locals = <<[Name |-> "g", IsParameter |-> TRUE, LookupIndex |-> 0],
                            [Name |-> "n", IsParameter |-> TRUE, LookupIndex |-> 1]>>]>>)

\* BoolConst with an operand word the encoder never writes
RawBoolConst(v) ==
  Assembly("rawBoolConst", Prototype(<<>>, <<>>,
    <<Inst("Raw", <<OpcodeBoolConst>> \o int32ToBytes(v) \o registerToBytes(1)),
      Inst("Print", <<1>>), Inst("Halt", <<>>)>>), <<>>)

BoolWords == <<0, 1, 2, 255, 256, MaxInt32, 0 - 1, (0 - MaxInt32) - 1>>

\* an instruction that cannot execute, between a prelude and a Print:
\* register 1 holds an integer, 4 a boolean, 5 a decimal, 2 and 3 nothing
Faulting(inst) ==
  Assembly("faulting", Prototype(<<>>, <<>>,
    <<Inst("IntConst", <<1, 1>>), Inst("BoolConst", <<TRUE, 4>>),
      Inst("DecConst", <<Dec(3, 2), 5>>), inst,
      Inst("Print", <<1>>), Inst("Halt", <<>>)>>), <<>>)

FaultNames ==
  <<"IntLT", "IntLTEq", "IntGT", "IntGTEq", "IntEq", "IntAdd", "IntSub",
    "IntMul", "IntDiv", "IntNeg",
    "DecLT", "DecLTEq", "DecGT", "DecGTEq", "DecEq", "DecAdd", "DecSub",
    "DecMul", "DecDiv", "BrTrue", "BrFalse">>

\* operands that are unset or of another kind
FaultOperands(name) ==
  IF name \in IntBinaryNames
    THEN <<<<1, 2, 3>>, <<2, 1, 3>>, <<1, 4, 1>>, <<5, 1, 3>>>>
  ELSE IF name \in DecBinaryNames
    THEN <<<<5, 2, 3>>, <<2, 5, 3>>, <<5, 1, 5>>, <<4, 5, 3>>>>
  ELSE IF name = "IntNeg"
    THEN <<<<2, 3>>, <<4, 1>>, <<5, 3>>, <<3, 1>>>>
  ELSE <<<<1, 42>>, <<2, 42>>, <<5, 42>>, <<3, 0>>>>

UnknownOpcodes == <<0, OpcodeNop, OpcodeDecNeg, 200, 255>>

FaultAssemblies ==
  [i \in 1..(Len(FaultNames) * 4) |->
     LET name == FaultNames[((i - 1) \div 4) + 1]
     IN  Faulting(Inst(name, FaultOperands(name)[((i - 1) % 4) + 1]))]
  \o [i \in 1..Len(UnknownOpcodes) |-> Faulting(Inst("Raw", <<UnknownOpcodes[i]>>))]

\* operands whose sum, difference, product or negation leaves the int32
\* range, with the results reduced modulo 2^32: l + r, l - r, l * r, -l
WrapSamples ==
  << [l |-> MaxInt32, r |-> 1,
      wrapped |-> <<MinInt32, 2147483646, MaxInt32, 0 - MaxInt32>>],
     [l |-> MinInt32, r |-> 1,
      wrapped |-> <<0 - MaxInt32, MaxInt32, MinInt32, MinInt32>>],
     [l |-> MaxInt32, r |-> MaxInt32,
      wrapped |-> <<0 - 2, 0, 1, 0 - MaxInt32>>],
     [l |-> MinInt32, r |-> MinInt32,
      wrapped |-> <<0, 0, 0, MinInt32>>],
     [l |-> MinInt32, r |-> 0 - 1,
      wrapped |-> <<MaxInt32, 0 - MaxInt32, MinInt32, MinInt32>>],
     [l |-> 65536, r |-> 65536,
      wrapped |-> <<131072, 0, 0, 0 - 65536>>],
     [l |-> 46341, r |-> 46341,
      wrapped |-> <<92682, 0, 0 - 2147479015, 0 - 46341>>],
     [l |-> 0 - 1, r |-> MaxInt32,
      wrapped |-> <<2147483646, MinInt32, 0 - MaxInt32, 1>>],
     [l |-> 123456789, r |-> 987654321,
      wrapped |-> <<1111111110, 0 - 864197532, 0 - 67153019, 0 - 123456789>>],
     [l |-> 0 - 2, r |-> MinInt32,
      wrapped |-> <<2147483646, 2147483646, 0, 2>>],
     [l |-> MaxInt32, r |-> 0 - 1,
      wrapped |-> <<2147483646, MinInt32, 0 - MaxInt32, 0 - MaxInt32>>],
     [l |-> 7, r |-> 0 - 3,
      wrapped |-> <<4, 10, 0 - 21, 0 - 7>>] >>

\* IntAdd, IntSub, IntMul and IntNeg on the operands of a sample
WrapAssembly(sample) ==
  [name |-> "wrap",
   mainFunc |-> Prototype(<<>>, <<>>,
     <<Inst("IntConst", <<sample.l, 1>>), Inst("IntConst", <<sample.r, 2>>),
       Inst("IntAdd", <<1, 2, 3>>), Inst("Print", <<3>>),
       Inst("IntSub", <<1, 2, 4>>), Inst("Print", <<4>>),
       Inst("IntMul", <<1, 2, 5>>), Inst("Print", <<5>>),
       Inst("IntNeg", <<1, 6>>), Inst("Print", <<6>>),
       Inst("Halt", <<>>)>>),
   funcs |-> <<>>,
   wrapped |-> sample.wrapped]

Assemblies ==
  SingleInstructions
  \o [i \in 1..Len(IntegerOperands) |->
        IntegerAssembly(IntegerOperands[i][1], IntegerOperands[i][2])]
  \o [i \in 1..Len(DecimalOperands) |->
        DecimalAssembly(DecimalOperands[i][1], DecimalOperands[i][2])]
  \o <<BranchAssembly(TRUE), BranchAssembly(FALSE), ClosureAssembly,
       RecursionAssembly(2)>>
  \o [i \in 1..Len(BoolWords) |-> RawBoolConst(BoolWords[i])]
  \o FaultAssemblies
  \o [i \in 1..Len(WrapSamples) |-> WrapAssembly(WrapSamples[i])]

(***************************************************************************)
(* The virtual machine: Interpreter, StackFrame, Register, Closure         *)
(*                                                                         *)
(* A Value is [k, v, d]: k the dynamic type ("int", "bool", "dec",         *)
(* "closure", or "nil" for the nil interface of an empty Register), v the  *)
(* payload (a closure's address in `closures`), d the denominator of a     *)
(* decimal (1 otherwise).  `registers` is the heap of Register objects: a  *)
(* *Register is an address in 1..Len(registers), 0 is the nil pointer.  A  *)
(* frame's Registers array is the function from its non-nil slots to       *)
(* addresses; the array has NumRegisters slots.  A Closure is              *)
(* [Prototype, Upvalues]: Prototype is 0 for mainFunc and i+1 for          *)
(* funcs[i], Upvalues the Cell pointer of each Upvalue.  Frames carry an   *)
(* activation number `id`, the activation `caller` whose Dispatch pushed   *)
(* them and the offset `callAt` of that Dispatch, and closures the         *)
(* activation `creator` that built them; the machine reads none of these.  *)
(***************************************************************************)
\* frames the call stack can hold before the host runs out of memory
MaxDepth == 8

NilPointer == 0

NilValue == [k |-> "nil", v |-> 0, d |-> 1]

IntValue(n) == [k |-> "int", v |-> n, d |-> 1]

BoolValue(b) == [k |-> "bool", v |-> IF b THEN 1 ELSE 0, d |-> 1]

ClosureValue(c) == [k |-> "closure", v |-> c, d |-> 1]

\* a string constant, named by a number
StrValue(c) == [k |-> "str", v |-> c, d |-> 1]

\* the quotient float32(l) / float32(r), kept as a fraction in lowest terms
\* (d = 0 for the infinities and NaN of a division by zero)
DecQuotient(l, r) ==
  IF r = 0
    THEN [k |-> "dec", v |-> (IF l > 0 THEN 1 ELSE IF l < 0 THEN 0 - 1 ELSE 0), d |-> 0]
    ELSE LET g == Gcd(Abs(l), Abs(r))
             sign == IF r < 0 THEN 0 - 1 ELSE 1
         IN  [k |-> "dec", v |-> sign * (l \div g), d |-> sign * (r \div g)]

\* the inner switch of the decimal opcodes, on two finite float32 values
\* whose result is a float32 value
DecResult(opcode, l, r) ==
  CASE opcode = OpcodeDecLT -> BoolValue(l.v * r.d < r.v * l.d)
    [] opcode = OpcodeDecLTEq -> BoolValue(l.v * r.d <= r.v * l.d)
    [] opcode = OpcodeDecGT -> BoolValue(l.v * r.d > r.v * l.d)
    [] opcode = OpcodeDecGTEq -> BoolValue(l.v * r.d >= r.v * l.d)
    [] opcode = OpcodeDecEq -> BoolValue(l.v * r.d = r.v * l.d)
    [] opcode = OpcodeDecAdd -> DecQuotient((l.v * r.d) + (r.v * l.d), l.d * r.d)
    [] opcode = OpcodeDecSub -> DecQuotient((l.v * r.d) - (r.v * l.d), l.d * r.d)
    [] opcode = OpcodeDecMul -> DecQuotient(l.v * r.v, l.d * r.d)
    [] opcode = OpcodeDecDiv -> DecQuotient(l.v * r.d, l.d * r.v)

VARIABLES phase, prog, mainFunc, funcs, stmtLog, jumpLog, ip, fp, callStack, registers,
          closures, out, trace, nextId

vars == <<phase, prog, mainFunc, funcs, stmtLog, jumpLog, ip, fp, callStack, registers,
          closures, out, trace, nextId>>

compiled == <<prog, mainFunc, funcs, stmtLog, jumpLog>>

\* the program was compiled from source
FromSource == prog \in 1..Len(Programs)

NoOp == [op |-> "none", a |-> 0, b |-> 0, c |-> 0, val |-> NilValue, read |-> <<>>]

\* read: the operands the handler read, in the order it read them
Op(name, a, b, c, val, read) ==
  [op |-> name, a |-> a, b |-> b, c |-> c, val |-> val, read |-> read]

\* the instruction executed last; trace records every instruction executed
lastOp == trace[Len(trace)]

PrototypeOf(closure) ==
  IF closure.Prototype = 0 THEN mainFunc ELSE funcs[closure.Prototype]

Bytes == PrototypeOf(closures[callStack[fp].Closure]).Bytecode

\* a slice index a uint32 or int32 word may be used as
InRange(w, n) == w >= 0 /\ w < n

\* the bytes of the instruction at ip are inside the bytecode
CanRead(nOperands) == InRange(ip, Len(Bytes) - (4 * nOperands))

\* readOpcode at ip
Opcode == Bytes[ip + 1]

\* the k-th 4-byte operand of the instruction at ip: readInt32, readUint32,
\* readRegister and readBytecodeAddress all assemble it big-endian
Operand(k) ==
  LET at == ip + 1 + (4 * (k - 1))
  IN  WordOfBytes(Bytes[at + 1], Bytes[at + 2], Bytes[at + 3], Bytes[at + 4])

readInt32(k) == Operand(k)

readUint32(k) == Operand(k)

readFloat32(k) == Float32frombits(readUint32(k))

readRegister(k) == readUint32(k)

readBytecodeAddress(k) == readUint32(k)

\* NextIp for a readOpcode that does not advance ip over the opcode byte
NextIpWithoutOpcode(nOperands) == ip + (4 * nOperands)

\* ip after an instruction with n operands
NextIp(nOperands) == ip + 1 + (4 * nOperands)

\* frame.Registers[i], for i inside the array
RegisterAt(frame, i) ==
  IF i \in DOMAIN frame.Registers THEN frame.Registers[i] ELSE NilPointer

\* frame.Registers[i] = pointer
WithRegister(frame, i, pointer) ==
  IF pointer = NilPointer
    THEN [frame EXCEPT !.Registers =
            [j \in (DOMAIN frame.Registers) \ {i} |-> frame.Registers[j]]]
    ELSE [frame EXCEPT !.Registers = (i :> pointer) @@ frame.Registers]

Running(opcode, nOperands) ==
  /\ phase = "running"
  /\ CanRead(nOperands)
  /\ Opcode = opcode

\* a panic that is recovered: the VM skips the opcode byte and runs on
PanicIsRecovered(name) ==
  IF CanRead(0)
    THEN /\ ip' = ip + 1
         /\ trace' = Append(trace, Op(name, 0, 0, 0, NilValue, <<>>))
         /\ UNCHANGED <<phase, compiled, fp, callStack, registers, closures, out,
                        nextId>>
    ELSE /\ phase' = "fault"
         /\ trace' = Append(trace, Op(name, 0, 0, 0, NilValue, <<>>))
         /\ UNCHANGED <<compiled, ip, fp, callStack, registers, closures, out,
                        nextId>>

\* a Go panic: the process stops
Panic(name) ==
  /\ phase' = "fault"
  /\ trace' = Append(trace, Op(name, 0, 0, 0, NilValue, <<>>))
  /\ UNCHANGED <<compiled, ip, fp, callStack, registers, closures, out, nextId>>

\* inter.fp.Registers[dest] = &Register{Value: value}
StoreNew(name, nOperands, dest, value, newClosures, read) ==
  /\ registers' = Append(registers, value)
  /\ callStack' = [callStack EXCEPT
                     ![fp] = WithRegister(@, dest, Len(registers) + 1)]
  /\ closures' = newClosures
  /\ ip' = NextIp(nOperands)
  /\ trace' = Append(trace, Op(name, dest, 0, 0, value, read))
  /\ UNCHANGED <<phase, compiled, fp, out, nextId>>

\* if inter.fp.Registers[dest] == nil { ... = &Register{} };
\* inter.fp.Registers[dest].Value = result
StoreValue(name, nOperands, dest, result, read) ==
  IF RegisterAt(callStack[fp], dest) = NilPointer
    THEN StoreNew(name, nOperands, dest, result, closures, read)
    ELSE /\ registers' = [registers EXCEPT
                            ![RegisterAt(callStack[fp], dest)] = result]
         /\ ip' = NextIp(nOperands)
         /\ trace' = Append(trace, Op(name, dest, 0, 0, result, read))
         /\ UNCHANGED <<phase, compiled, fp, callStack, closures, out, nextId>>

(***************************************************************************)
(* The driver: Compile, then NewInterpreter                                *)
(***************************************************************************)
\* NewClosure(callstack, fn): [panics, Upvalues]; the enclosing frame is
\* the top of the call stack
NewClosureUpvalues(fn) ==
  LET enclosingStackFrame == callStack[Len(callStack)]
      enclosingUpvalues == closures[enclosingStackFrame.Closure].Upvalues
      totalReturns == 1
      bad(record) ==
        IF record.LocalToParent
          THEN ~InRange(totalReturns + record.LookupIndex, NumRegisters)
          ELSE ~InRange(record.LookupIndex, Len(enclosingUpvalues))
      cell(record) ==
        IF record.LocalToParent
          THEN RegisterAt(enclosingStackFrame, totalReturns + record.LookupIndex)
          ELSE enclosingUpvalues[record.LookupIndex + 1]
  IN  IF Len(fn.Upvalues) = 0
        THEN [panics |-> FALSE, Upvalues |-> <<>>]
        ELSE IF Len(callStack) = 0 \/ \E i \in 1..Len(fn.Upvalues) : bad(fn.Upvalues[i])
          THEN [panics |-> TRUE, Upvalues |-> <<>>]
          ELSE [panics |-> FALSE,
                Upvalues |-> [i \in 1..Len(fn.Upvalues) |-> cell(fn.Upvalues[i])]]

\* the variable each upvalue of a new closure stands for: the local
\* LookupIndex of the activation (frame id) that declared it
UpvalueOrigins(fn) ==
  LET enclosingStackFrame == callStack[Len(callStack)]
      enclosingOrigins == closures[enclosingStackFrame.Closure].origins
      origin(record) ==
        IF record.LocalToParent
          THEN <<enclosingStackFrame.id, record.LookupIndex>>
          ELSE enclosingOrigins[record.LookupIndex + 1]
  IN  [i \in 1..Len(fn.Upvalues) |-> origin(fn.Upvalues[i])]

\* what Compile returns for each program
Compiled == [i \in 1..Len(Programs) |-> Compile(Programs[i].ast)]

DoCompile ==
  /\ phase = "source"
  /\ LET result == Compiled[prog]
     IN  /\ phase' = IF result.panicked THEN "fault" ELSE "compiled"
         /\ mainFunc' = result.mainFunc
         /\ funcs' = result.funcs
         /\ stmtLog' = result.stmtLog
         /\ jumpLog' = result.jumpLog
  /\ UNCHANGED <<prog, ip, fp, callStack, registers, closures, out, trace, nextId>>

DoNewInterpreter ==
  /\ phase = "compiled"
  /\ Len(mainFunc.Upvalues) = 0
  /\ phase' = "running"
  /\ closures' = <<[Prototype |-> 0, Upvalues |-> <<>>, creator |-> 0,
                   origins |-> <<>>]>>
  /\ callStack' = <<[Closure |-> 1, ReturnToAddress |-> 0, Registers |-> <<>>,
                     id |-> 1, caller |-> 0, callAt |-> 0]>>
  /\ fp' = 1
  /\ ip' = 0
  /\ nextId' = 2
  /\ UNCHANGED <<compiled, registers, out, trace>>

(***************************************************************************)
(* Interpreter.Execute: one action for each case of the opcode switch      *)
(***************************************************************************)
ExecHalt ==
  /\ Running(OpcodeHalt, 0)
  /\ phase' = "halted"
  /\ ip' = NextIp(0)
  /\ trace' = Append(trace, Op("Halt", 0, 0, 0, NilValue, <<>>))
  /\ UNCHANGED <<compiled, fp, callStack, registers, closures, out, nextId>>

ExecBoolConst ==
  /\ Running(OpcodeBoolConst, 2)
  /\ LET value == (readInt32(1) = 1)
         dest == readRegister(2)
     IN  IF InRange(dest, NumRegisters)
           THEN StoreNew("BoolConst", 2, dest, BoolValue(value), closures,
                         <<readInt32(1), dest>>)
           ELSE Panic("BoolConst")

ExecIntConst ==
  /\ Running(OpcodeIntConst, 2)
  /\ LET value == readInt32(1)
         dest == readRegister(2)
     IN  IF InRange(dest, NumRegisters)
           THEN StoreNew("IntConst", 2, dest, IntValue(value), closures,
                         <<value, dest>>)
           ELSE Panic("IntConst")

ExecFuncConst ==
  /\ Running(OpcodeFuncConst, 2)
  /\ LET id == readUint32(1)
         dest == readRegister(2)
     IN  IF ~InRange(id, Len(funcs))
           THEN Panic("FuncConst")
           ELSE LET up == NewClosureUpvalues(funcs[id + 1])
                    closure == [Prototype |-> id + 1, Upvalues |-> up.Upvalues,
                                creator |-> callStack[fp].id,
                                origins |-> IF up.panics THEN <<>>
                                            ELSE UpvalueOrigins(funcs[id + 1])]
                IN  IF up.panics \/ ~InRange(dest, NumRegisters)
                      THEN Panic("FuncConst")
                      ELSE StoreNew("FuncConst", 2, dest,
                                    ClosureValue(Len(closures) + 1),
                                    Append(closures, closure), <<id, dest>>)

ExecMove ==
  /\ Running(OpcodeMove, 2)
  /\ LET source == readRegister(1)
         dest == readRegister(2)
     IN  IF /\ InRange(source, NumRegisters)
            /\ InRange(dest, NumRegisters)
            /\ RegisterAt(callStack[fp], source) # NilPointer
           THEN /\ StoreNew("Move", 2, dest,
                            registers[RegisterAt(callStack[fp], source)], closures,
                            <<source, dest>>)
           ELSE Panic("Move")

ExecLoadUpVal ==
  /\ Running(OpcodeLoadUpVal, 2)
  /\ LET index == readInt32(1)
         dest == readRegister(2)
         Upvalues == closures[callStack[fp].Closure].Upvalues
     IN  IF /\ InRange(index, Len(Upvalues))
            /\ Upvalues[index + 1] # NilPointer
            /\ InRange(dest, NumRegisters)
           THEN StoreNew("LoadUpVal", 2, dest, registers[Upvalues[index + 1]],
                         closures, <<index, dest>>)
           ELSE Panic("LoadUpVal")

\* ExecSetUpVal with a copy-on-write bug: the value goes to a new Register
\* that only the executing closure's upvalue references
ExecSetUpValIntoNewCell ==
  /\ Running(OpcodeSetUpVal, 2)
  /\ LET source == readRegister(1)
         index == readInt32(2)
         Upvalues == closures[callStack[fp].Closure].Upvalues
     IN  IF /\ InRange(index, Len(Upvalues))
            /\ Upvalues[index + 1] # NilPointer
            /\ InRange(source, NumRegisters)
            /\ RegisterAt(callStack[fp], source) # NilPointer
           THEN LET value == registers[RegisterAt(callStack[fp], source)]
                IN  /\ registers' = Append(registers, value)
                    /\ closures' = [closures EXCEPT
                         ![callStack[fp].Closure].Upvalues[index + 1] =
                            Len(registers) + 1]
                    /\ ip' = NextIp(2)
                    /\ trace' = Append(trace, Op("SetUpVal", source, index,
                                                 Len(registers) + 1, value,
                                                 <<source, index>>))
                    /\ UNCHANGED <<phase, compiled, fp, callStack, out, nextId>>
           ELSE Panic("SetUpVal")

ExecSetUpVal ==
  /\ Running(OpcodeSetUpVal, 2)
  /\ LET source == readRegister(1)
         index == readInt32(2)
         Upvalues == closures[callStack[fp].Closure].Upvalues
     IN  IF /\ InRange(index, Len(Upvalues))
            /\ Upvalues[index + 1] # NilPointer
            /\ InRange(source, NumRegisters)
            /\ RegisterAt(callStack[fp], source) # NilPointer
           THEN LET value == registers[RegisterAt(callStack[fp], source)]
                IN  /\ registers' = [registers EXCEPT ![Upvalues[index + 1]] = value]
                    /\ ip' = NextIp(2)
                    /\ trace' = Append(trace, Op("SetUpVal", source, index, Upvalues[index + 1],
                                    value, <<source, index>>))
                    /\ UNCHANGED <<phase, compiled, fp, callStack, closures, out,
                                   nextId>>
           ELSE Panic("SetUpVal")

\* ExecBrAlways that reads its operand and does not jump
ExecBrAlwaysFallsThrough ==
  /\ Running(OpcodeBrAlways, 1)
  /\ LET addr == readBytecodeAddress(1)
     IN  /\ ip' = NextIp(1)
         /\ trace' = Append(trace, Op("BrAlways", addr, 0, 0, NilValue, <<addr>>))
  /\ UNCHANGED <<phase, compiled, fp, callStack, registers, closures, out, nextId>>

ExecBrAlways ==
  /\ Running(OpcodeBrAlways, 1)
  /\ LET addr == readBytecodeAddress(1)
     IN  /\ ip' = addr
         /\ trace' = Append(trace, Op("BrAlways", addr, 0, 0, NilValue, <<addr>>))
  /\ UNCHANGED <<phase, compiled, fp, callStack, registers, closures, out, nextId>>

\* the shared case of OpcodeBrTrue and OpcodeBrFalse
ExecBrTrue ==
  /\ phase = "running"
  /\ CanRead(2)
  /\ Opcode \in {OpcodeBrTrue, OpcodeBrFalse}
  /\ LET testReg == readRegister(1)
         addr == readBytecodeAddress(2)
         testArg == IF InRange(testReg, NumRegisters)
                      THEN RegisterAt(callStack[fp], testReg)
                      ELSE NilPointer
     IN  IF testArg = NilPointer \/ registers[testArg].k # "bool"
           THEN Panic("BrTrue")
           ELSE LET testValue == (registers[testArg].v = 1)
                    taken == IF Opcode = OpcodeBrTrue THEN testValue ELSE ~testValue
                IN  /\ ip' = IF taken THEN addr ELSE NextIp(2)
                    /\ trace' = Append(trace, Op("BrTrue", testReg, addr, 0, registers[testArg],
                                                 <<testReg, addr>>))
                    /\ UNCHANGED <<phase, compiled, fp, callStack, registers,
                                   closures, out, nextId>>

\* int32 arithmetic, wrapping modulo 2^32
\* an addition that stops at the ends of the int32 range
Add32Saturating(a, b) ==
  IF a >= 0 /\ b >= 0 /\ a > MaxInt32 - b
    THEN MaxInt32
    ELSE IF a < 0 /\ b < 0 /\ a < MinInt32 - b
      THEN MinInt32
      ELSE a + b

Add32(a, b) ==
  IF a >= 0 /\ b >= 0 /\ a > MaxInt32 - b
    THEN ((a - MaxInt32) - 1) + ((b - MaxInt32) - 1)
    ELSE IF a < 0 /\ b < 0 /\ a < MinInt32 - b
      THEN ((a + MaxInt32) + 1) + ((b + MaxInt32) + 1)
      ELSE a + b

Neg32(a) == IF a = MinInt32 THEN MinInt32 ELSE 0 - a

Sub32(a, b) == Add32(a, Neg32(b))

Mul32(a, b) ==
  LET a0 == ByteAt(a, 0)
      a1 == ByteAt(a, 8)
      a2 == ByteAt(a, 16)
      a3 == ByteAt(a, 24)
      b0 == ByteAt(b, 0)
      b1 == ByteAt(b, 8)
      b2 == ByteAt(b, 16)
      b3 == ByteAt(b, 24)
      t0 == a0 * b0
      t1 == (a0 * b1) + (a1 * b0) + (t0 \div 256)
      t2 == (a0 * b2) + (a1 * b1) + (a2 * b0) + (t1 \div 256)
      t3 == (a0 * b3) + (a1 * b2) + (a2 * b1) + (a3 * b0) + (t2 \div 256)
  IN  WordOfBytes(t3 % 256, t2 % 256, t1 % 256, t0 % 256)

\* the result switch of the integer case
\* IntResult with an integer division: the quotient stays an int32
IntResultWithIntegerQuotient(opcode, leftValue, rightValue) ==
  CASE opcode = OpcodeIntLT   -> BoolValue(leftValue < rightValue)
    [] opcode = OpcodeIntLTEq -> BoolValue(leftValue <= rightValue)
    [] opcode = OpcodeIntGT   -> BoolValue(leftValue > rightValue)
    [] opcode = OpcodeIntGTEq -> BoolValue(leftValue >= rightValue)
    [] opcode = OpcodeIntEq   -> BoolValue(leftValue = rightValue)
    [] opcode = OpcodeIntAdd  -> IntValue(Add32(leftValue, rightValue))
    [] opcode = OpcodeIntSub  -> IntValue(Sub32(leftValue, rightValue))
    [] opcode = OpcodeIntMul  -> IntValue(Mul32(leftValue, rightValue))
    [] opcode = OpcodeIntDiv  ->
         IntValue(IF rightValue = 0 THEN 0 ELSE leftValue \div rightValue)

IntResult(opcode, leftValue, rightValue) ==
  CASE opcode = OpcodeIntLT   -> BoolValue(leftValue < rightValue)
    [] opcode = OpcodeIntLTEq -> BoolValue(leftValue <= rightValue)
    [] opcode = OpcodeIntGT   -> BoolValue(leftValue > rightValue)
    [] opcode = OpcodeIntGTEq -> BoolValue(leftValue >= rightValue)
    [] opcode = OpcodeIntEq   -> BoolValue(leftValue = rightValue)
    [] opcode = OpcodeIntAdd  -> IntValue(Add32(leftValue, rightValue))
    [] opcode = OpcodeIntSub  -> IntValue(Sub32(leftValue, rightValue))
    [] opcode = OpcodeIntMul  -> IntValue(Mul32(leftValue, rightValue))
    [] opcode = OpcodeIntDiv  -> DecQuotient(leftValue, rightValue)

\* the arguments a Dispatch copies: the caller's Register pointers
ArgumentRegisters(frame, firstParam, nLocals) ==
  LET totalReturns == 1
      copied == {argIndex \in 0..(nLocals - 1) :
                   RegisterAt(frame, firstParam + argIndex) # NilPointer}
  IN  [i \in {totalReturns + argIndex : argIndex \in copied} |->
         RegisterAt(frame, firstParam + (i - totalReturns))]

\* ExecDispatch that runs the callee in place of the caller's frame instead
\* of pushing a new frame
ExecDispatchReplacesFrame ==
  /\ Running(OpcodeDispatch, 2)
  /\ LET source == readRegister(1)
         firstParam == readRegister(2)
         sourceReg == IF InRange(source, NumRegisters)
                        THEN RegisterAt(callStack[fp], source)
                        ELSE NilPointer
     IN  IF sourceReg = NilPointer \/ registers[sourceReg].k # "closure"
           THEN Panic("Dispatch")
           ELSE LET closure == registers[sourceReg].v
                    nLocals == Len(PrototypeOf(closures[closure]).Locals)
                    frame == [Closure |-> closure,
                              ReturnToAddress |-> 0,
                              Registers |-> ArgumentRegisters(
                                 callStack[fp], firstParam, nLocals),
                              id |-> nextId, caller |-> callStack[fp].caller,
                              callAt |-> callStack[fp].callAt]
                IN  /\ callStack' = [callStack EXCEPT ![fp] = frame]
                    /\ ip' = 0
                    /\ nextId' = nextId + 1
                    /\ trace' = Append(trace, Op("Dispatch", source, firstParam,
                                                 nLocals, registers[sourceReg],
                                                 <<source, firstParam>>))
                    /\ UNCHANGED <<phase, compiled, fp, registers, closures, out>>

\* ExecDispatch that saves ip before it reads the instruction: the offset of
\* the Dispatch itself
ExecDispatchSavesOwnAddress ==
  /\ Running(OpcodeDispatch, 2)
  /\ LET source == readRegister(1)
         firstParam == readRegister(2)
         sourceReg == IF InRange(source, NumRegisters)
                        THEN RegisterAt(callStack[fp], source)
                        ELSE NilPointer
     IN  IF sourceReg = NilPointer \/ registers[sourceReg].k # "closure"
           THEN Panic("Dispatch")
           ELSE LET closure == registers[sourceReg].v
                    nLocals == Len(PrototypeOf(closures[closure]).Locals)
                IN  IF \/ ~InRange(firstParam, NumRegisters)
                       \/ (nLocals > 0 /\ firstParam + nLocals > NumRegisters)
                       \/ nLocals >= NumRegisters
                      THEN Panic("Dispatch")
                      ELSE IF Len(callStack) >= MaxDepth
                        THEN Panic("OutOfMemory")
                        ELSE LET frame == [Closure |-> closure,
                                           ReturnToAddress |-> 0,
                                           Registers |-> ArgumentRegisters(
                                              callStack[fp], firstParam, nLocals),
                                           id |-> nextId,
                                           caller |-> callStack[fp].id,
                                           callAt |-> ip]
                                 saved == [callStack EXCEPT
                                             ![fp].ReturnToAddress = ip]
                             IN  /\ callStack' = Append(saved, frame)
                                 /\ fp' = Len(callStack) + 1
                                 /\ ip' = 0
                                 /\ nextId' = nextId + 1
                                 /\ trace' = Append(trace, Op("Dispatch", source, firstParam,
                                                 nLocals, registers[sourceReg],
                                                 <<source, firstParam>>))
                                 /\ UNCHANGED <<phase, compiled, registers,
                                                closures, out>>

ExecDispatch ==
  /\ Running(OpcodeDispatch, 2)
  /\ LET source == readRegister(1)
         firstParam == readRegister(2)
         sourceReg == IF InRange(source, NumRegisters)
                        THEN RegisterAt(callStack[fp], source)
                        ELSE NilPointer
     IN  IF sourceReg = NilPointer \/ registers[sourceReg].k # "closure"
           THEN Panic("Dispatch")
           ELSE LET closure == registers[sourceReg].v
                    nLocals == Len(PrototypeOf(closures[closure]).Locals)
                IN  IF \/ ~InRange(firstParam, NumRegisters)
                       \/ (nLocals > 0 /\ firstParam + nLocals > NumRegisters)
                       \/ nLocals >= NumRegisters
                      THEN Panic("Dispatch")
                      ELSE IF Len(callStack) >= MaxDepth
                        THEN Panic("OutOfMemory")
                        ELSE LET frame == [Closure |-> closure,
                                           ReturnToAddress |-> 0,
                                           Registers |-> ArgumentRegisters(
                                              callStack[fp], firstParam, nLocals),
                                           id |-> nextId,
                                           caller |-> callStack[fp].id,
                                           callAt |-> ip]
                                 saved == [callStack EXCEPT
                                             ![fp].ReturnToAddress = NextIp(2)]
                             IN  /\ callStack' = Append(saved, frame)
                                 /\ fp' = Len(callStack) + 1
                                 /\ ip' = 0
                                 /\ nextId' = nextId + 1
                                 /\ trace' = Append(trace, Op("Dispatch", source, firstParam,
                                                 nLocals, registers[sourceReg],
                                                 <<source, firstParam>>))
                                 /\ UNCHANGED <<phase, compiled, registers,
                                                closures, out>>

\* ExecReturn that ignores its operand and always hands over register 0
ExecReturnIgnoresSource ==
  /\ Running(OpcodeReturn, 1)
  /\ LET sourceReg == readRegister(1)
     IN  IF Len(callStack) < 2 \/ (sourceReg # 0 /\ ~InRange(sourceReg, NumRegisters))
           THEN Panic("Return")
           ELSE LET topFrame == callStack[fp]
                    lowerFrame == callStack[Len(callStack) - 1]
                    returned == RegisterAt(topFrame, 0)
                IN  /\ callStack' =
                         [i \in 1..(Len(callStack) - 1) |->
                            IF i = Len(callStack) - 1
                              THEN WithRegister(lowerFrame, 0, returned)
                              ELSE callStack[i]]
                    /\ fp' = Len(callStack) - 1
                    /\ ip' = lowerFrame.ReturnToAddress
                    /\ trace' = Append(trace, Op("Return", sourceReg, topFrame.id, 0,
                                    IF returned = NilPointer THEN NilValue
                                    ELSE registers[returned], <<sourceReg>>))
                    /\ UNCHANGED <<phase, compiled, registers, closures, out,
                                   nextId>>

\* ExecReturn that resumes the caller and leaves the callee's frame on the
\* call stack
ExecReturnKeepsFrame ==
  /\ Running(OpcodeReturn, 1)
  /\ LET sourceReg == readRegister(1)
     IN  IF Len(callStack) < 2 \/ (sourceReg # 0 /\ ~InRange(sourceReg, NumRegisters))
           THEN Panic("Return")
           ELSE LET topFrame == callStack[fp]
                    lowerFrame == callStack[Len(callStack) - 1]
                    returned == IF sourceReg # 0
                                  THEN RegisterAt(topFrame, sourceReg)
                                  ELSE RegisterAt(topFrame, 0)
                IN  /\ callStack' =
                         [callStack EXCEPT ![Len(callStack) - 1] =
                            WithRegister(lowerFrame, 0, returned)]
                    /\ fp' = Len(callStack) - 1
                    /\ ip' = lowerFrame.ReturnToAddress
                    /\ trace' = Append(trace, Op("Return", sourceReg, topFrame.id, 0,
                                    IF returned = NilPointer THEN NilValue
                                    ELSE registers[returned], <<sourceReg>>))
                    /\ UNCHANGED <<phase, compiled, registers, closures, out,
                                   nextId>>

\* ExecReturn that resumes at the ReturnToAddress of the frame it pops
ExecReturnToAddressOfTopFrame ==
  /\ Running(OpcodeReturn, 1)
  /\ LET sourceReg == readRegister(1)
     IN  IF Len(callStack) < 2 \/ (sourceReg # 0 /\ ~InRange(sourceReg, NumRegisters))
           THEN Panic("Return")
           ELSE LET topFrame == callStack[fp]
                    lowerFrame == callStack[Len(callStack) - 1]
                    returned == IF sourceReg # 0
                                  THEN RegisterAt(topFrame, sourceReg)
                                  ELSE RegisterAt(topFrame, 0)
                IN  /\ callStack' =
                         [i \in 1..(Len(callStack) - 1) |->
                            IF i = Len(callStack) - 1
                              THEN WithRegister(lowerFrame, 0, returned)
                              ELSE callStack[i]]
                    /\ fp' = Len(callStack) - 1
                    /\ ip' = topFrame.ReturnToAddress
                    /\ trace' = Append(trace, Op("Return", sourceReg, topFrame.id, 0,
                                    IF returned = NilPointer THEN NilValue
                                    ELSE registers[returned], <<sourceReg>>))
                    /\ UNCHANGED <<phase, compiled, registers, closures, out,
                                   nextId>>

ExecReturn ==
  /\ Running(OpcodeReturn, 1)
  /\ LET sourceReg == readRegister(1)
     IN  IF Len(callStack) < 2 \/ (sourceReg # 0 /\ ~InRange(sourceReg, NumRegisters))
           THEN Panic("Return")
           ELSE LET topFrame == callStack[fp]
                    lowerFrame == callStack[Len(callStack) - 1]
                    returned == IF sourceReg # 0
                                  THEN RegisterAt(topFrame, sourceReg)
                                  ELSE RegisterAt(topFrame, 0)
                IN  /\ callStack' =
                         [i \in 1..(Len(callStack) - 1) |->
                            IF i = Len(callStack) - 1
                              THEN WithRegister(lowerFrame, 0, returned)
                              ELSE callStack[i]]
                    /\ fp' = Len(callStack) - 1
                    /\ ip' = lowerFrame.ReturnToAddress
                    /\ trace' = Append(trace, Op("Return", sourceReg, topFrame.id, 0,
                                    IF returned = NilPointer THEN NilValue
                                    ELSE registers[returned], <<sourceReg>>))
                    /\ UNCHANGED <<phase, compiled, registers, closures, out,
                                   nextId>>

\* the shared case of the nine binary integer opcodes
ExecIntBinary ==
  /\ phase = "running"
  /\ CanRead(3)
  /\ Opcode \in IntBinaryOpcodes
  /\ LET leftReg == readRegister(1)
         rightReg == readRegister(2)
         dest == readRegister(3)
         frame == callStack[fp]
     IN  IF \/ ~InRange(leftReg, NumRegisters)
            \/ ~InRange(rightReg, NumRegisters)
            \/ RegisterAt(frame, leftReg) = NilPointer
            \/ registers[RegisterAt(frame, leftReg)].k # "int"
            \/ RegisterAt(frame, rightReg) = NilPointer
            \/ registers[RegisterAt(frame, rightReg)].k # "int"
            \/ ~InRange(dest, NumRegisters)
           THEN Panic("IntBinary")
           ELSE LET result == IntResult(Opcode,
                                        registers[RegisterAt(frame, leftReg)].v,
                                        registers[RegisterAt(frame, rightReg)].v)
                IN  IF RegisterAt(frame, dest) = NilPointer
                      THEN StoreNew("IntBinary", 3, dest, result, closures,
                                    <<leftReg, rightReg, dest>>)
                      ELSE /\ registers' = [registers EXCEPT
                                              ![RegisterAt(frame, dest)] = result]
                           /\ ip' = NextIp(3)
                           /\ trace' = Append(trace, Op("IntBinary", dest, 0, 0, result,
                                                        <<leftReg, rightReg, dest>>))
                           /\ UNCHANGED <<phase, compiled, fp, callStack, closures,
                                          out, nextId>>

ExecDecConst ==
  /\ Running(OpcodeDecConst, 2)
  /\ LET value == readFloat32(1)
         dest == readRegister(2)
     IN  IF InRange(dest, NumRegisters)
           THEN StoreNew("DecConst", 2, dest, value, closures, <<value, dest>>)
           ELSE Panic("DecConst")

ExecStrConst ==
  /\ Running(OpcodeStrConst, 2)
  /\ LET index == readUint32(1)
         dest == readRegister(2)
         Constants == PrototypeOf(closures[callStack[fp].Closure]).Constants
     IN  IF InRange(index, Len(Constants)) /\ InRange(dest, NumRegisters)
           THEN StoreNew("StrConst", 2, dest, StrValue(Constants[index + 1]),
                         closures, <<index, dest>>)
           ELSE Panic("StrConst")

ExecIntNeg ==
  /\ Running(OpcodeIntNeg, 2)
  /\ LET operandReg == readRegister(1)
         dest == readRegister(2)
         frame == callStack[fp]
     IN  IF \/ ~InRange(operandReg, NumRegisters)
            \/ RegisterAt(frame, operandReg) = NilPointer
            \/ registers[RegisterAt(frame, operandReg)].k # "int"
            \/ ~InRange(dest, NumRegisters)
           THEN Panic("IntNeg")
           ELSE StoreValue("IntNeg", 2, dest,
                           IntValue(Mul32(0 - 1, registers[RegisterAt(frame, operandReg)].v)),
                           <<operandReg, dest>>)

\* the shared case of the nine binary decimal opcodes
ExecDecBinary ==
  /\ phase = "running"
  /\ CanRead(3)
  /\ Opcode \in DecBinaryOpcodes
  /\ LET leftReg == readRegister(1)
         rightReg == readRegister(2)
         dest == readRegister(3)
         frame == callStack[fp]
     IN  IF \/ ~InRange(leftReg, NumRegisters)
            \/ ~InRange(rightReg, NumRegisters)
            \/ RegisterAt(frame, leftReg) = NilPointer
            \/ registers[RegisterAt(frame, leftReg)].k # "dec"
            \/ RegisterAt(frame, rightReg) = NilPointer
            \/ registers[RegisterAt(frame, rightReg)].k # "dec"
            \/ ~InRange(dest, NumRegisters)
           THEN Panic("DecBinary")
           ELSE StoreValue("DecBinary", 3, dest,
                           DecResult(Opcode, registers[RegisterAt(frame, leftReg)],
                                     registers[RegisterAt(frame, rightReg)]),
                           <<leftReg, rightReg, dest>>)

\* default: panic(fmt.Sprintf("unknown opcode 0x%x", opcode))
ExecDefault ==
  /\ phase = "running"
  /\ CanRead(0)
  /\ Opcode \notin KnownOpcodes
  /\ Panic("unknown opcode")

\* the operands the case of an opcode reads
OperandCount(opcode) ==
  IF opcode = OpcodeHalt THEN 0
  ELSE IF opcode \in {OpcodeBrAlways, OpcodeReturn, OpcodePrint} THEN 1
  ELSE IF opcode \in IntBinaryOpcodes \cup DecBinaryOpcodes THEN 3
  ELSE 2

\* readOpcode or getNext4Bytes slices the bytecode past its end: a panic
ExecPastEnd ==
  /\ phase = "running"
  /\ IF CanRead(0)
       THEN Opcode \in KnownOpcodes /\ ~CanRead(OperandCount(Opcode))
       ELSE TRUE
  /\ Panic("index out of range")

ExecPrint ==
  /\ Running(OpcodePrint, 1)
  /\ LET source == readRegister(1)
         arg == IF InRange(source, NumRegisters)
                  THEN RegisterAt(callStack[fp], source)
                  ELSE NilPointer
     IN  IF arg = NilPointer
           THEN Panic("Print")
           ELSE /\ out' = Append(out, registers[arg])
                /\ ip' = NextIp(1)
                /\ trace' = Append(trace, Op("Print", source, 0, 0, registers[arg], <<source>>))
                /\ UNCHANGED <<phase, compiled, fp, callStack, registers, closures,
                               nextId>>

\* prog names a source program, which the driver compiles and executes, or
\* (past the source programs) an assembly handed to Execute
Init ==
  /\ prog \in 1..(Len(Programs) + Len(Assemblies))
  /\ phase = IF FromSource THEN "source" ELSE "compiled"
  /\ mainFunc = IF FromSource
                  THEN [Upvalues |-> <<>>, Locals |-> <<>>, Constants |-> <<>>,
                        Bytecode |-> <<>>]
                  ELSE Assemblies[prog - Len(Programs)].mainFunc
  /\ funcs = IF FromSource THEN <<>> ELSE Assemblies[prog - Len(Programs)].funcs
  /\ stmtLog = <<>>
  /\ jumpLog = <<>>
  /\ ip = 0
  /\ fp = 0
  /\ callStack = <<>>
  /\ registers = <<>>
  /\ closures = <<>>
  /\ out = <<>>
  /\ trace = <<NoOp>>
  /\ nextId = 1

\* one turn of the loop of Interpreter.Execute
Execute ==
  \/ ExecHalt
  \/ ExecBoolConst
  \/ ExecIntConst
  \/ ExecFuncConst
  \/ ExecMove
  \/ ExecLoadUpVal
  \/ ExecSetUpVal
  \/ ExecBrAlways
  \/ ExecBrTrue
  \/ ExecDispatch
  \/ ExecReturn
  \/ ExecIntBinary
  \/ ExecIntNeg
  \/ ExecDecConst
  \/ ExecStrConst
  \/ ExecDecBinary
  \/ ExecPrint
  \/ ExecDefault
  \/ ExecPastEnd

Next ==
  \/ DoCompile
  \/ DoNewInterpreter
  \/ Execute

Spec == Init /\ [][Next]_vars

\* the loop of Interpreter.Execute keeps executing instructions until a Halt
\* or a panic stops it
FairSpec == Spec /\ WF_vars(Execute)

(***************************************************************************)
(* Properties                                                              *)
(***************************************************************************)
MaxFrameId == 16

Terminal == phase \in {"halted", "fault"}

ProgramName ==
  IF FromSource THEN Programs[prog].name ELSE Assemblies[prog - Len(Programs)].name

PrintsExpected ==
  Terminal => (phase = "halted" /\ out = Programs[prog].expect)

\* the value register i of a frame holds in the heap regs
ValueIn(regs, frame, i) ==
  IF RegisterAt(frame, i) = NilPointer THEN NilValue
  ELSE regs[RegisterAt(frame, i)]

\* the value read through a cell
ValueThrough(cell) == IF cell = NilPointer THEN NilValue ELSE registers[cell]

\* every <<closure, upvalue index>>
UpvalueSlots ==
  UNION {{<<c, i>> : i \in 1..Len(closures[c].Upvalues)} : c \in 1..Len(closures)}

\* C1: recursion works: the program of scenario 4,
\* let fact := fn(n) {...fact(n - 1)...}; print fact(5), prints 120 and the VM
\* reaches Halt without a fatal fault.
C1_RecursionWorks ==
  (ProgramName = "fact" /\ Terminal) => (phase = "halted" /\ out = Ints(<<120>>))

\* the run of fact(5) stops in the LoadUpVal of the recursive call
C1_Fault ==
  /\ ProgramName = "fact"
  /\ phase = "fault"
  /\ lastOp.op = "LoadUpVal"
  /\ out = <<>>

\* C2: every closure instance has its own captured variable that persists
\* across calls: upvalues that stand for different variables (different
\* activations of the enclosing function) never share a cell, and the
\* counter programs print what each closure last wrote (1, 2, 10, 11, 3 for
\* the README; 1, 1 for scenario 5).
C2_ClosureInstancesIndependent ==
  /\ \A s \in UpvalueSlots : \A t \in UpvalueSlots :
       (/\ closures[s[1]].origins[s[2]] # closures[t[1]].origins[t[2]]
        /\ closures[s[1]].Upvalues[s[2]] # NilPointer)
         => closures[s[1]].Upvalues[s[2]] # closures[t[1]].Upvalues[t[2]]
  /\ (ProgramName \in {"counter", "mk", "sharedArgument"}) => PrintsExpected

\* two counters made by two calls newCounter(a) write the same cell
C2_SharedCell ==
  /\ ProgramName = "sharedArgument"
  /\ phase = "halted"
  /\ out = Ints(<<0, 1, 2, 0>>)

\* C3: argument passing: on entry to the callee of f(a1, ..., ak), whatever
\* mix of literals, local identifiers, upvalue identifiers and nested
\* expressions the arguments are, callee register i holds the value of ai for
\* every 1 <= i <= k.
C3_ArgumentsInOrder ==
  (/\ phase = "running"
   /\ lastOp.op = "Dispatch"
   /\ ProgramName = "argument"
   /\ closures[callStack[fp].Closure].Prototype = 1)
    => \A i \in 1..Len(Programs[prog].argValues) :
         ValueIn(registers, callStack[fp], i) =
           IntValue(Programs[prog].argValues[i])

\* the callee of f(3, y) is entered with a nil second parameter
C3_MisplacedArgument ==
  /\ phase = "running"
  /\ lastOp.op = "Dispatch"
  /\ ProgramName = "argument"
  /\ Programs[prog].argValues = <<3, 4>>
  /\ closures[callStack[fp].Closure].Prototype = 1
  /\ ValueIn(registers, callStack[fp], 1) = IntValue(3)
  /\ ValueIn(registers, callStack[fp], 2) # IntValue(4)

ReturnTransfers ==
  (phase = "running" /\ phase' = "running" /\ Opcode = OpcodeReturn)
    => LET s == readRegister(1)
       IN  ValueIn(registers', callStack'[fp'], 0) =
             ValueIn(registers, callStack[fp], IF s > 0 THEN s ELSE 0)

MoveDeliversReturned ==
  (/\ phase = "running"
   /\ phase' = "running"
   /\ lastOp.op = "Return"
   /\ Opcode = OpcodeMove
   /\ readRegister(1) = 0)
    => ValueIn(registers', callStack'[fp'], readRegister(2)) = lastOp.val

\* C4: return value delivery: a Return s puts the value of callee register s
\* (callee register 0 when s = 0) in the caller's register 0, the Move 0 -> dest
\* that follows the Dispatch leaves in dest the value the callee returned, and
\* the programs that print the results of their calls print the values of the
\* expressions of the return statements executed.
C4_ReturnValueDelivered ==
  /\ [][ReturnTransfers /\ MoveDeliversReturned]_vars
  /\ [](ProgramName \in {"scenario3", "return", "branchInCallee"}
          => PrintsExpected)

\* g(3) has returned f(3) = 3 * 4 from register s > 0 and the Move put it in dest
C4_Delivered ==
  /\ ProgramName = "return"
  /\ Len(trace) > 2
  /\ trace[Len(trace) - 1].op = "Return"
  /\ trace[Len(trace) - 1].a > 0
  /\ lastOp.op = "Move"
  /\ lastOp.a # 0
  /\ ValueIn(registers, callStack[fp], lastOp.a) = IntValue(12)

IsBranch(o) == o.op = "BrTrue"

\* the outcome of each condition tested so far
ConditionsTested ==
  LET br == SelectSeq(trace, IsBranch)
  IN  [i \in 1..Len(br) |-> br[i].val.v = 1]

\* the conditions the selection rule evaluates: up to the first true one
ConditionsToTest(truths) ==
  LET trues == {i \in 1..Len(truths) : truths[i]}
  IN  IF trues = {} THEN truths
      ELSE SubSeq(truths, 1, CHOOSE i \in trues : \A j \in trues : i <= j)

C7_CellSharedWithFrame ==
  \A s \in UpvalueSlots : \A f \in 1..Len(callStack) :
    LET record == PrototypeOf(closures[s[1]]).Upvalues[s[2]]
    IN  (callStack[f].id = closures[s[1]].creator /\ record.LocalToParent)
          => ValueThrough(closures[s[1]].Upvalues[s[2]]) =
               ValueIn(registers, callStack[f], 1 + record.LookupIndex)

\* mk has written n := 5 after building get, and get() returned the old 0
C7_StaleCell ==
  /\ ProgramName = "parentWriteConst"
  /\ phase = "halted"
  /\ out = Ints(<<0>>)

\* C8: frame isolation: no instruction executed in a callee frame (SetUpVal
\* excepted) changes the value held by a register of a frame below it; a
\* Return changes only register 0 of the frame it returns to.
C8_FrameIsolation ==
  [][(phase = "running" /\ phase' = "running" /\ Opcode # OpcodeSetUpVal)
       => \A f \in 1..(fp - 1) :
            \A r \in (DOMAIN callStack[f].Registers) \cup
                     (DOMAIN callStack'[f].Registers) :
              \/ (Opcode = OpcodeReturn /\ f = fp - 1 /\ r = 0)
              \/ ValueIn(registers', callStack'[f], r) =
                   ValueIn(registers, callStack[f], r)]_vars

\* f(x) has incremented its parameter and main prints x = 2
C8_CallerRegisterChanged ==
  /\ ProgramName = "mutateParameter"
  /\ phase = "halted"
  /\ out = Ints(<<2, 2>>)

\* C9: register discipline: for every statement compiled, in the main body and
\* in every function body, stack_ptr equals reserved_regs when compilation of
\* the statement begins and again when it ends.
C9_RegisterDiscipline ==
  \A i \in 1..Len(stmtLog) :
    /\ stmtLog[i].before = stmtLog[i].reserved
    /\ stmtLog[i].after = stmtLog[i].reserved

\* print 1 + 2 leaves stack_ptr one above reserved_regs
C9_PrintLeavesRegister ==
  /\ ProgramName = "scenario1"
  /\ phase = "compiled"
  /\ Len(stmtLog) = 1
  /\ stmtLog[1].before = stmtLog[1].reserved
  /\ stmtLog[1].after = stmtLog[1].reserved + 1

\* the ids of the frames on the call stack, bottom first
StackIds == [i \in 1..Len(callStack) |-> callStack[i].id]

OnStack(id) == \E i \in 1..Len(callStack) : callStack[i].id = id

FramesPairDispatchWithReturn ==
  (phase = "running" /\ phase' = "running")
    => /\ (Opcode = OpcodeDispatch)
            => (StackIds' = Append(StackIds, nextId) /\ nextId' = nextId + 1)
       /\ (Opcode = OpcodeReturn)
            => StackIds' = SubSeq(StackIds, 1, Len(StackIds) - 1)
       /\ (Opcode \notin {OpcodeDispatch, OpcodeReturn})
            => (StackIds' = StackIds /\ nextId' = nextId)

DepthChange ==
  IF Opcode = OpcodeDispatch THEN 1
  ELSE IF Opcode = OpcodeReturn THEN 0 - 1
  ELSE 0

CallStackDepthSteps ==
  /\ (phase = "compiled" /\ phase' = "running") => Len(callStack') = 1
  /\ (phase = "running" /\ phase' = "running")
       => Len(callStack') = Len(callStack) + DepthChange
  /\ (phase = "running" /\ phase' # "running") => Len(callStack') = Len(callStack)

\* C11: the call stack never underflows: its depth is 1 when the VM starts,
\* only Dispatch (+1) and Return (-1) change it, no Return of a compiled
\* program is reached while the depth is 1, and the depth is at least 1 in
\* every state of the VM.
C11_CallStackNeverUnderflows ==
  /\ [][CallStackDepthSteps]_vars
  /\ []((FromSource /\ phase = "running" /\ CanRead(0) /\ Opcode = OpcodeReturn)
          => Len(callStack) >= 2)
  /\ [](phase \in {"running", "halted"} => Len(callStack) >= 1)
  /\ [](phase = "fault" => (Len(callStack) >= 1 \/ trace = <<NoOp>>))

\* a Return has taken the depth from 2 back to 1 and the VM runs on
C11_ReturnedToMain ==
  /\ phase = "running"
  /\ lastOp.op = "Return"
  /\ Len(callStack) = 1
  /\ fp = 1

\* the number of bytes Generate writes for an instruction with this opcode
EncodedSize(opcode) ==
  CASE opcode = OpcodeHalt -> Len(GenHalt)
    [] opcode = OpcodeBoolConst -> Len(GenBoolConst(FALSE, 0))
    [] opcode = OpcodeIntConst -> Len(GenIntConst(0, 0))
    [] opcode = OpcodeFuncConst -> Len(GenFuncConst(0, 0))
    [] opcode = OpcodeMove -> Len(GenMove(0, 0))
    [] opcode = OpcodeLoadUpVal -> Len(GenLoadUpVal(0, 0))
    [] opcode = OpcodeSetUpVal -> Len(GenSetUpVal(0, 0))
    [] opcode = OpcodeBrAlways -> Len(GenBrAlways(0))
    [] opcode = OpcodeBrTrue -> Len(GenBrTrue(0, 0))
    [] opcode = OpcodeBrFalse -> Len(GenBrFalse(0, 0))
    [] opcode = OpcodeDecConst -> Len(GenDecConst(Dec(0, 1), 0))
    [] opcode = OpcodeStrConst -> Len(GenStrConst(0, 0))
    [] opcode = OpcodeIntNeg -> Len(GenIntNeg(0, 0))
    [] opcode = OpcodeDecNeg -> Len(GenDecNeg(0, 0))
    [] opcode \in DecBinaryOpcodes -> Len(GenDecBinary(opcode, 0, 0, 0))
    [] opcode = OpcodeDispatch -> Len(GenDispatch(0, 0))
    [] opcode = OpcodeReturn -> Len(GenReturn(0))
    [] opcode = OpcodePrint -> Len(GenPrint(0))
    [] opcode \in IntBinaryOpcodes -> Len(GenIntBinary(opcode, 0, 0, 0))
    [] OTHER -> 1

\* the offsets at which the instructions written one after the other into
\* code begin, from offset `at` on
RECURSIVE InstructionStarts(_, _)
InstructionStarts(code, at) ==
  IF at >= Len(code)
    THEN {}
    ELSE {at} \cup InstructionStarts(code, at + EncodedSize(code[at + 1]))

\* an instruction that neither branches, calls nor returns leaves ip at the
\* first byte after its encoding, and a Dispatch saves that offset
ConsumesEncoding ==
  (phase = "running" /\ phase' = "running")
    => /\ (Opcode \notin {OpcodeBrAlways, OpcodeBrTrue, OpcodeBrFalse,
                          OpcodeDispatch, OpcodeReturn})
            => ip' = ip + EncodedSize(Opcode)
       /\ (Opcode = OpcodeDispatch)
            => callStack'[fp].ReturnToAddress = ip + EncodedSize(Opcode)

\* C12: consistent snapshot at every instruction boundary: whenever the VM
\* is about to read an opcode of a compiled program, fp is the top frame of
\* the call stack and ip is the offset of the first byte of an instruction
\* of the bytecode of fp's closure's prototype (so ip < size); each handler
\* consumes exactly the bytes the encoder wrote for its opcode.
C12_ConsistentSnapshot ==
  /\ []((FromSource /\ phase = "running")
          => /\ fp = Len(callStack)
             /\ fp >= 1
             /\ ip \in InstructionStarts(Bytes, 0)
             /\ ip < Len(Bytes))
  /\ [][FromSource => ConsumesEncoding]_vars

\* the VM is about to read an opcode inside a callee, after a branch taken
\* there
C12_BoundaryInCallee ==
  /\ phase = "running"
  /\ Len(callStack) >= 2
  /\ lastOp.op = "BrTrue"
  /\ ip = lastOp.b
  /\ ip > 0

\* the instruction that Assemble wrote at offset target, when the
\* instructions insts were written from offset at on
RECURSIVE InstAt(_, _, _)
InstAt(insts, at, target) ==
  IF insts = <<>> \/ at > target
    THEN Inst("none", <<>>)
    ELSE IF at = target
      THEN Head(insts)
      ELSE InstAt(Tail(insts), at + Len(Generate(Head(insts))), target)

\* the instruction of an assembly the VM is about to execute
CurrentInst ==
  IF FromSource \/ phase # "running"
    THEN Inst("none", <<>>)
    ELSE InstAt(PrototypeOf(closures[callStack[fp].Closure]).insts, 0, ip)

\* the operand words Generate encodes for an instruction
EncodedOperands(inst) ==
  IF inst.name = "BoolConst"
    THEN <<IF inst.args[1] THEN 1 ELSE 0, inst.args[2]>>
    ELSE inst.args

\* the operands the case of the opcode at ip reads
DecodedOperands ==
  IF Opcode = OpcodeDecConst
    THEN <<readFloat32(1), readRegister(2)>>
    ELSE [k \in 1..OperandCount(Opcode) |-> Operand(k)]

\* the VM decodes the instruction of names it is about to execute to the
\* operands that were encoded
DecodesWhatWasEncoded(names) ==
  (CurrentInst.name \in names)
    => /\ Opcode = OpcodeOf(CurrentInst.name)
       /\ Opcode \in KnownOpcodes
       /\ CanRead(OperandCount(Opcode))
       /\ DecodedOperands = EncodedOperands(CurrentInst)

\* the handler that executed the instruction read the operands encoded
ReadsWhatWasEncoded(names) ==
  (CurrentInst.name \in names /\ phase' = "running")
    => lastOp'.read = EncodedOperands(CurrentInst)

GeneratedNames ==
  {"Halt", "BoolConst", "IntConst", "DecConst", "StrConst", "FuncConst",
   "Move", "LoadUpVal", "SetUpVal", "BrAlways", "BrTrue", "BrFalse",
   "Dispatch", "Return", "Print", "IntNeg", "DecNeg"}
    \cup IntBinaryNames \cup DecBinaryNames

\* C13: codec round-trip: for every instruction of the opcode set and every
\* operand tuple, the operands the VM reads back from the bytes Generate
\* produced are the operands encoded, in the same order.
C13_CodecRoundTrip ==
  /\ [](DecodesWhatWasEncoded(GeneratedNames))
  /\ [][ReadsWhatWasEncoded(GeneratedNames)]_vars

\* the bytes Generate wrote for a DecNeg stopped the VM: no case decodes them
C13_DecNegNotDecoded ==
  /\ phase = "fault"
  /\ lastOp.op = "unknown opcode"
  /\ InstAt(mainFunc.insts, 0, ip).name = "DecNeg"
  /\ ~FromSource

\* the round trip of every other instruction
RoundTripExceptDecNeg ==
  /\ [](DecodesWhatWasEncoded(GeneratedNames \ {"DecNeg"}))
  /\ [][ReadsWhatWasEncoded(GeneratedNames \ {"DecNeg"})]_vars

\* every other instruction was executed on operands read back
RoundTripExecuted ==
  /\ phase = "halted"
  /\ ProgramName = "closure"
\* C14: `BoolConst v, d` writes the boolean v # 0 into register d for every
\* 32-bit signed operand v: false exactly when v = 0, true for every other v.
C14_BoolConstWritesNonZero ==
  (phase = "running" /\ lastOp.op = "BoolConst")
    => ValueIn(registers, callStack[fp], lastOp.read[2])
         = BoolValue(lastOp.read[1] # 0)

\* BoolConst 2, r1 has written false into register 1
C14_TwoWritesFalse ==
  /\ phase = "running"
  /\ lastOp.op = "BoolConst"
  /\ lastOp.read = <<2, 1>>
  /\ ValueIn(registers, callStack[fp], 1) = BoolValue(FALSE)

\* on the operand words BoolConst.Generate writes, 0 and 1, the register
\* holds v # 0
BoolConstOfEncoder ==
  (phase = "running" /\ lastOp.op = "BoolConst" /\ lastOp.read[1] \in {0, 1})
    => ValueIn(registers, callStack[fp], lastOp.read[2])
         = BoolValue(lastOp.read[1] # 0)
\* the dynamic type of the result of a binary integer opcode
IntResultKind(opcode) ==
  IF opcode = OpcodeIntDiv THEN "dec"
  ELSE IF opcode \in {OpcodeIntAdd, OpcodeIntSub, OpcodeIntMul} THEN "int"
  ELSE "bool"

IntBinaryWritesKind ==
  (phase = "running" /\ CanRead(3) /\ Opcode \in IntBinaryOpcodes
     /\ phase' = "running")
    => ValueIn(registers', callStack'[fp'], readRegister(3)).k = IntResultKind(Opcode)

\* C15: IntDiv on two integer registers always writes a decimal-kind value
\* to the destination register, also when the quotient is a whole number;
\* IntAdd, IntSub and IntMul write integer-kind values and the Int
\* comparisons write boolean-kind values.
C15_IntDivWritesDecimal == [][IntBinaryWritesKind]_vars

\* IntDiv of 6 by 3 has replaced the integer in register 4 by the decimal 2
C15_WholeQuotientIsDecimal ==
  /\ ProgramName = "integers"
  /\ phase = "running"
  /\ lastOp.op = "IntBinary"
  /\ lastOp.read = <<1, 2, 4>>
  /\ lastOp.val = Dec(2, 1)
  /\ ValueIn(registers, callStack[fp], 1) = IntValue(6)
  /\ ValueIn(registers, callStack[fp], 2) = IntValue(3)
  /\ ValueIn(registers, callStack[fp], 4) = Dec(2, 1)
\* register reg of the executing frame is unset or holds a value that is
\* not of the kind
Unfit(reg, kind) ==
  /\ InRange(reg, NumRegisters)
  /\ \/ RegisterAt(callStack[fp], reg) = NilPointer
     \/ registers[RegisterAt(callStack[fp], reg)].k # kind

\* the instruction at ip cannot execute: an operand of an integer or
\* decimal instruction is unset or of another kind, the test register of a
\* branch is not a boolean, or the opcode is unknown
RuntimeFault ==
  /\ phase = "running"
  /\ CanRead(0)
  /\ \/ Opcode \notin KnownOpcodes
     \/ /\ Opcode \in IntBinaryOpcodes
        /\ CanRead(3)
        /\ (Unfit(readRegister(1), "int") \/ Unfit(readRegister(2), "int"))
     \/ /\ Opcode \in DecBinaryOpcodes
        /\ CanRead(3)
        /\ (Unfit(readRegister(1), "dec") \/ Unfit(readRegister(2), "dec"))
     \/ /\ Opcode = OpcodeIntNeg
        /\ CanRead(2)
        /\ Unfit(readRegister(1), "int")
     \/ /\ Opcode \in {OpcodeBrTrue, OpcodeBrFalse}
        /\ CanRead(2)
        /\ Unfit(readRegister(1), "bool")

\* a runtime fault stops the VM and writes nothing
FaultStops ==
  RuntimeFault
    => /\ phase' = "fault"
       /\ UNCHANGED <<ip, fp, callStack, registers, closures, out>>

\* C16: runtime faults are fatal and final: when an Int* or Dec* instruction
\* finds an operand register unset or holding a value of another kind, when
\* BrTrue or BrFalse finds a non-boolean test register, or when the opcode
\* byte is not a known opcode, the VM stops; it writes no destination
\* register for that instruction and executes no further instruction.
C16_FaultsAreFatalAndFinal ==
  /\ [][FaultStops]_vars
  /\ [][phase # "fault"]_vars

\* IntAdd r1, r4, r1 found a boolean in register 4: the VM stopped before
\* the Print that follows, register 1 still holds the integer 1
C16_StoppedBeforePrint ==
  /\ ProgramName = "faulting"
  /\ phase = "fault"
  /\ InstAt(mainFunc.insts, 0, ip) = Inst("IntAdd", <<1, 4, 1>>)
  /\ InstAt(mainFunc.insts, 0, ip + 13) = Inst("Print", <<1>>)
  /\ ValueIn(registers, callStack[fp], 1) = IntValue(1)
  /\ ValueIn(registers, callStack[fp], 4) = BoolValue(TRUE)
  /\ out = <<>>
\* C17: a call to a function with 0 parameters and 0 locals whose body
\* falls through to the implicit terminal `Return 0` runs and returns:
\* control comes back to the caller at the instruction after the Dispatch
\* and the program continues to Halt without a fatal fault.
C17_FallThroughReturns ==
  /\ [](ProgramName = "fallThrough" => phase # "fault")
  /\ []((ProgramName = "fallThrough" /\ phase = "running" /\ lastOp.op = "Return")
          => /\ Len(callStack) = 1
             /\ ip = callStack[fp].ReturnToAddress
             /\ ip \in InstructionStarts(Bytes, 0))
  /\ []((ProgramName = "fallThrough" /\ phase = "halted") => PrintsExpected)

\* the implicit Return 0 came back to the caller with register 0 unset, and
\* the Move that follows the Dispatch stopped the VM
C17_MoveAfterReturnFaults ==
  /\ ProgramName = "fallThrough"
  /\ phase = "fault"
  /\ lastOp.op = "Move"
  /\ trace[Len(trace) - 1].op = "Return"
  /\ trace[Len(trace) - 1].read = <<0>>
  /\ Opcode = OpcodeMove
  /\ readRegister(1) = 0
  /\ RegisterAt(callStack[fp], 0) = NilPointer
  /\ out = Ints(<<1>>)
NestedIfPrints == (ProgramName = "nestedIf" /\ Terminal) => PrintsExpected
\* the calls of registerJump and of computeJumps in the log of the compiler
RegisterCalls == {i \in 1..Len(jumpLog) : jumpLog[i].call = "registerJump"}

ComputeCalls == {j \in 1..Len(jumpLog) : jumpLog[j].call = "computeJumps"}

\* call j resolved the placeholder that holds the place registered by call i
Resolves(j, i) ==
  /\ jumpLog[j].fnId = jumpLog[i].fnId
  /\ \E k \in 1..Len(jumpLog[j].places) : jumpLog[j].places[k] = jumpLog[i].places[1]

\* the address operand at the place of call i in the bytecode Compile returned
AddressAtPlace(i) ==
  LET code == IF jumpLog[i].fnId = 0 THEN mainFunc.Bytecode
              ELSE funcs[jumpLog[i].fnId].Bytecode
      at == jumpLog[i].places[1]
  IN  WordOfBytes(code[at + 1], code[at + 2], code[at + 3], code[at + 4])

\* C18: placeholders are resolved exactly once: computeJumps is called at
\* most once on each placeholder, every placeholder on which a jump was
\* registered is resolved, after the registration, before the compilation
\* returns, and no branch keeps its unpatched address 0.
C18_PlaceholdersResolvedOnce ==
  (FromSource /\ phase # "source")
    => /\ \A i \in RegisterCalls :
            /\ Cardinality({j \in ComputeCalls : Resolves(j, i)}) = 1
            /\ \A j \in ComputeCalls : Resolves(j, i) =>
                 /\ j > i
                 /\ AddressAtPlace(i) = jumpLog[j].address
            /\ AddressAtPlace(i) # 0
       /\ \A j \in ComputeCalls : jumpLog[j].places # <<>>

\* an if statement with nested if statements has been compiled; its done
\* label held the jumps of two clauses
C18_NestedIfCompiled ==
  /\ ProgramName = "nestedIf"
  /\ phase = "compiled"
  /\ Cardinality(RegisterCalls) = 14
  /\ Cardinality(ComputeCalls) = 12
  /\ \E j \in ComputeCalls : Len(jumpLog[j].places) = 2
BranchOpcodes == {OpcodeBrAlways, OpcodeBrTrue, OpcodeBrFalse}

\* the offsets of the branch instructions in code
BranchesIn(code) ==
  {at \in InstructionStarts(code, 0) : code[at + 1] \in BranchOpcodes}

\* the address operand of the branch instruction at offset at
TargetOf(code, at) ==
  LET p == IF code[at + 1] = OpcodeBrAlways THEN at + 1 ELSE at + 5
  IN  WordOfBytes(code[p + 1], code[p + 2], code[p + 3], code[p + 4])

\* the if statement of a program of the family "if"
TheIfStmt == Programs[prog].ast.Statements[4]

\* the branches of an if statement are forward; one without elif and else
\* emits n of them; one with N elif clauses and an else clause resolves
\* N + 2 body labels, each holding the one jump to its body, and then one
\* done label, holding the jumps that follow the N + 1 bodies before the
\* else body
IfBranchCounts(n) ==
  (ProgramName = "if" /\ phase # "source")
    => /\ \A at \in BranchesIn(mainFunc.Bytecode) :
            TargetOf(mainFunc.Bytecode, at) > at
       /\ (Len(TheIfStmt.ElifClauses) = 0 /\ ~TheIfStmt.HasElse)
            => Cardinality(BranchesIn(mainFunc.Bytecode)) = n
       /\ TheIfStmt.HasElse
            => /\ Cardinality(ComputeCalls) = Len(TheIfStmt.ElifClauses) + 3
               /\ Len(jumpLog) \in ComputeCalls
               /\ Len(jumpLog[Len(jumpLog)].places) = Len(TheIfStmt.ElifClauses) + 1
               /\ \A j \in ComputeCalls \ {Len(jumpLog)} : Len(jumpLog[j].places) = 1

\* C19 (as stated): an if statement with no elif and no else emits exactly
\* one forward branch instruction and no backward branch; an if statement
\* with N elif clauses and an else clause uses exactly one done label and
\* N + 2 body labels.
C19_OneForwardBranch == IfBranchCounts(1)

\* C19 (amended): an if statement with no elif and no else emits exactly
\* two forward branch instructions, the BrTrue to its body and the BrAlways
\* to the done label, and no backward branch; an if statement with N elif
\* clauses and an else clause uses exactly one done label and N + 2 body
\* labels.
C19_TwoForwardBranches ==
  /\ IfBranchCounts(2)
  /\ (ProgramName = "if" /\ phase # "source"
        /\ Len(TheIfStmt.ElifClauses) = 0 /\ ~TheIfStmt.HasElse)
       => {mainFunc.Bytecode[at + 1] : at \in BranchesIn(mainFunc.Bytecode)}
            = {OpcodeBrTrue, OpcodeBrAlways}

\* an if statement without elif and else has been compiled and run
C19_PlainIfCompiled ==
  /\ ProgramName = "if"
  /\ phase = "halted"
  /\ Len(TheIfStmt.ElifClauses) = 0
  /\ ~TheIfStmt.HasElse
  /\ Cardinality(BranchesIn(mainFunc.Bytecode)) = 2

\* an if statement with two elif clauses and an else clause has been compiled
C19_ElifElseCompiled ==
  /\ ProgramName = "if"
  /\ phase = "compiled"
  /\ Len(TheIfStmt.ElifClauses) = 2
  /\ TheIfStmt.HasElse
  /\ Cardinality(ComputeCalls) = 5
\* the top-level subtraction of a program of the family "operands" finds
\* the values of its operands in the registers it names
SubtractsOperands ==
  (ProgramName = "operands" /\ phase = "running" /\ CanRead(3)
     /\ Opcode = OpcodeIntSub)
    => /\ ValueIn(registers, callStack[fp], readRegister(1))
            = IntValue(Programs[prog].operands[1])
       /\ ValueIn(registers, callStack[fp], readRegister(2))
            = IntValue(Programs[prog].operands[2])

\* C20: left and right operand allocations of a binary expression never
\* collide: in the bytecode emitted for `l op r` the register named as the
\* left operand still holds the value of l when the instruction executes,
\* for every shape of l and r (literal, local identifier, upvalue
\* identifier, nested binary expression, call expression), so the
\* instruction computes op(value of l, value of r).
C20_OperandsNeverCollide ==
  /\ SubtractsOperands
  /\ (ProgramName = "operands" /\ Terminal) => PrintsExpected
\* in `f(3) - 2` the literal 2 was loaded into the register that held the
\* result of the call: the subtraction names one register for both operands
C20_CallResultOverwritten ==
  /\ ProgramName = "operands"
  /\ Programs[prog].shapes = <<"call", "literal">>
  /\ phase = "running"
  /\ CanRead(3)
  /\ Opcode = OpcodeIntSub
  /\ readRegister(1) = readRegister(2)
  /\ ValueIn(registers, callStack[fp], readRegister(1)) = IntValue(2)
  /\ \E i \in 1..Len(trace) : trace[i].op = "Return" /\ trace[i].val = IntValue(30)

\* the operands do not collide when the left operand is not a call
OperandsWithoutLeftCall ==
  (ProgramName = "operands" /\ Programs[prog].shapes[1] # "call")
    => /\ SubtractsOperands
       /\ Terminal => PrintsExpected
\* a Return hands control to the activation whose Dispatch pushed the frame
\* it pops, at the first byte after that Dispatch
ReturnResumesAfterDispatch ==
  (phase = "running" /\ phase' = "running" /\ Opcode = OpcodeReturn)
    => LET topFrame == callStack[fp]
           resumed == callStack'[fp']
           code == PrototypeOf(closures[resumed.Closure]).Bytecode
       IN  /\ fp' = Len(callStack')
           /\ resumed.id = topFrame.caller
           /\ code[topFrame.callAt + 1] = OpcodeDispatch
           /\ ip' = topFrame.callAt + EncodedSize(OpcodeDispatch)

\* C21: resume point: when a Return executes, fp becomes the frame that
\* executed the matching Dispatch and ip the offset of the first byte after
\* that Dispatch in that frame's prototype, at any nesting depth, when one
\* prototype is active in several frames and when a caller calls several
\* times in a row.
C21_ReturnResumesAfterDispatch == [][ReturnResumesAfterDispatch]_vars

\* the recursive closure, three activations deep, has come back from its
\* first call to itself and is about to make the second
C21_ResumedInRecursion ==
  /\ ProgramName = "recursion"
  /\ phase = "running"
  /\ lastOp.op = "Return"
  /\ Len(callStack) = 3
  /\ callStack[2].Closure = callStack[3].Closure
  /\ ip = 71
  /\ Opcode = OpcodeDispatch

RECURSIVE Concat(_)
Concat(seqs) == IF seqs = <<>> THEN <<>> ELSE Head(seqs) \o Concat(Tail(seqs))

\* the nodes compile is called on for a node that is not a function
\* literal, in the order of the calls
ChildNodes(n) ==
  CASE n.kind = "Binary" -> <<n.Left, n.Right>>
    [] n.kind \in {"Decl", "Assign"} -> <<n.Assignment>>
    [] n.kind = "Print" -> <<n.Argument>>
    [] n.kind = "Dispatch" -> <<n.Root>> \o n.Arguments
    [] n.kind = "Return" -> IF n.HasArgument THEN <<n.Argument>> ELSE <<>>
    [] n.kind = "If" ->
         <<n.IfClause.Condition>>
           \o [i \in 1..Len(n.ElifClauses) |-> n.ElifClauses[i].Condition]
           \o n.IfClause.Body
           \o Concat([i \in 1..Len(n.ElifClauses) |-> n.ElifClauses[i].Body])
           \o (IF n.HasElse THEN n.ElseClause ELSE <<>>)
    [] OTHER -> <<>>

\* the function literals under the nodes, in the order compilation reaches
\* them: with their bodies (deep), or without entering a function body
RECURSIVE FuncLiterals(_, _)
FuncLiterals(nodes, deep) ==
  IF nodes = <<>>
    THEN <<>>
    ELSE LET n == Head(nodes)
         IN  (IF n.kind = "Func"
                THEN <<n>> \o (IF deep THEN FuncLiterals(n.Body, TRUE) ELSE <<>>)
                ELSE FuncLiterals(ChildNodes(n), deep))
               \o FuncLiterals(Tail(nodes), deep)

\* the index of each literal of `direct` when indices follow that order and
\* the first of them gets the index `first`
RECURSIVE LiteralIndices(_, _)
LiteralIndices(direct, first) ==
  IF direct = <<>>
    THEN <<>>
    ELSE <<first>>
           \o LiteralIndices(Tail(direct),
                             first + 1 + Len(FuncLiterals(Head(direct).Body, TRUE)))

\* the ConstantIndex operands of the FuncConst instructions of code, in the
\* order of their offsets
RECURSIVE FuncConstsIn(_, _)
FuncConstsIn(code, at) ==
  IF at >= Len(code)
    THEN <<>>
    ELSE (IF code[at + 1] = OpcodeFuncConst
            THEN <<WordOfBytes(code[at + 2], code[at + 3], code[at + 4], code[at + 5])>>
            ELSE <<>>)
           \o FuncConstsIn(code, at + EncodedSize(code[at + 1]))

\* the prototype compileFunction makes of a literal that gets the index
CompiledAlone(literal, index) ==
  LET none == [Upvalues |-> <<>>, Locals |-> <<>>, Constants |-> <<>>,
               Bytecode |-> <<>>]
      state == newAssembly(<<>>, <<>>, [i \in 1..index |-> none], <<>>, 0)
  IN  compileFunction(state, literal).st.childFuncs[index + 1]

\* prototype 0 is mainFunc, prototype k is funcs[k]
FuncConstsOf(k) ==
  FuncConstsIn(IF k = 0 THEN mainFunc.Bytecode ELSE funcs[k].Bytecode, 0)

\* C22: prototype indexing: the operand p of the FuncConst emitted for a
\* function literal names, in the list funcs returned by Compile, the
\* prototype compiled from that literal; the indices follow the order in
\* which compilation reaches the literals, an outer literal before the
\* literals of its body, and no two literals share an index.
C22_PrototypeIndexing ==
  (FromSource /\ phase = "compiled")
    => LET ast == Programs[prog].ast
           literals == FuncLiterals(ast.Statements, TRUE)
           uses == UNION {{<<k, i>> : i \in 1..Len(FuncConstsOf(k))} : k \in 0..Len(funcs)}
       IN  /\ Len(funcs) = Len(literals)
           /\ FuncConstsOf(0) = LiteralIndices(FuncLiterals(ast.Statements, FALSE), 0)
           /\ \A k \in 1..Len(literals) :
                 /\ funcs[k] = CompiledAlone(literals[k], k - 1)
                 /\ FuncConstsOf(k) =
                      LiteralIndices(FuncLiterals(literals[k].Body, FALSE), k)
           /\ \A u, v \in uses :
                 (FuncConstsOf(u[1])[u[2]] = FuncConstsOf(v[1])[v[2]]) => u = v

\* the five literals a{b{c}, e}, d are compiled: main names a and d with 0
\* and 4, a names b and e with 1 and 3, b names c with 2
C22_LiteralsIndexed ==
  /\ ProgramName = "literals"
  /\ phase = "compiled"
  /\ Len(funcs) = 5
  /\ FuncConstsOf(0) = <<0, 4>>
  /\ FuncConstsOf(1) = <<1, 3>>
  /\ FuncConstsOf(2) = <<2>>
  /\ funcs[3].Locals = <<>> /\ funcs[2].Locals = <<Local("c", 0)>>

\* C23: stack_ptr always designates a temporary: whenever the compiler is
\* about to compile a statement, and when it has compiled it, stack_ptr is at
\* least reserved_regs, so what is compiled into stack_ptr has neither
\* register 0 nor the register of a local variable as its destination.
C23_StackPtrDesignatesTemporary ==
  \A i \in 1..Len(stmtLog) :
    /\ RegGEq(stmtLog[i].before, stmtLog[i].reserved)
    /\ RegGEq(stmtLog[i].after, stmtLog[i].reserved)

\* after the statement f(x); stack_ptr is the register of the local x: the
\* next statement, print 1 + 2, is compiled into it, prints 4 and leaves 4
\* in x
C23_TemporaryInLocalRegister ==
  /\ ProgramName = "position"
  /\ Programs[prog].prefix = "callLocal"
  /\ Programs[prog].value = 3
  /\ phase = "halted"
  /\ \E i \in 1..Len(stmtLog) :
        /\ stmtLog[i].fnId = 0
        /\ stmtLog[i].kind = "Print"
        /\ stmtLog[i].reserved = 5
        /\ stmtLog[i].before = 3
  /\ out = Ints(<<4, 4>>)

\* the operands of an instruction that are register addresses
RegisterPositions(opcode) ==
  CASE opcode \in {OpcodeBoolConst, OpcodeIntConst, OpcodeDecConst, OpcodeStrConst,
                   OpcodeFuncConst, OpcodeLoadUpVal} -> {2}
    [] opcode \in {OpcodeMove, OpcodeDispatch, OpcodeIntNeg, OpcodeDecNeg} -> {1, 2}
    [] opcode \in {OpcodeSetUpVal, OpcodeBrTrue, OpcodeBrFalse, OpcodeReturn,
                   OpcodePrint} -> {1}
    [] opcode \in IntBinaryOpcodes \cup DecBinaryOpcodes -> {1, 2, 3}
    [] OTHER -> {}

\* the k-th operand word of the instruction at offset `at` of code
WordAt(code, at, k) ==
  LET b == at + (4 * (k - 1)) + 1
  IN  WordOfBytes(code[b + 1], code[b + 2], code[b + 3], code[b + 4])

\* the register addresses written in code
RegistersNamedIn(code) ==
  UNION {{WordAt(code, at, k) : k \in RegisterPositions(code[at + 1])} :
           at \in InstructionStarts(code, 0)}

\* C24: register bounds: every register operand in the bytecode the compiler
\* emits, for main and for every function, is in 0..255 (the programs have
\* at most 255 reserved registers in every scope), so the VM does not index
\* a frame's Registers array out of range.
C24_RegisterBounds ==
  (FromSource /\ phase = "compiled")
    => \A k \in 0..Len(funcs) :
         \A reg \in RegistersNamedIn(IF k = 0 THEN mainFunc.Bytecode
                                      ELSE funcs[k].Bytecode) :
           InRange(reg, NumRegisters)

\* 254 reserved registers and print 1; print 2; print 3: the third print
\* loads its constant into register 256 and the VM stops there
C24_RegisterPastTheFrame ==
  /\ ProgramName = "registerEdge"
  /\ Programs[prog].reserved = NumRegisters - 2
  /\ NumRegisters \in RegistersNamedIn(mainFunc.Bytecode)
  /\ phase = "fault"
  /\ lastOp.op = "IntConst"
  /\ out = Ints(<<1, 2>>)

\* the print statement of a position program prints the value of its
\* expression
PrintsValueOfExpression ==
  /\ phase = "halted"
  /\ Len(out) >= Programs[prog].printAt
  /\ out[Programs[prog].printAt] = IntValue(Programs[prog].value)

\* C25: statement compilation is position-independent: print e, for e built
\* of integer literals and binary operators, prints the value of e whatever
\* statement was compiled before it in the same scope: none, a declaration,
\* a print, a call without arguments, a call with a literal or a local
\* argument.
C25_PrintIsPositionIndependent ==
  (ProgramName = "position" /\ Terminal) => PrintsValueOfExpression

\* after the statement g(); the statement print 1 + 2 prints 4
C25_PrintsFourAfterCall ==
  /\ ProgramName = "position"
  /\ Programs[prog].prefix = "call0"
  /\ Programs[prog].value = 3
  /\ phase = "halted"
  /\ out = Ints(<<4, 5>>)

\* the prefixes that are not a call of a function without arguments or with
\* a local as first argument leave the value printed as it is
PositionWithoutCalls ==
  (/\ ProgramName = "position"
   /\ Programs[prog].prefix \notin {"call0", "callLocal"}
   /\ Terminal) => PrintsExpected

InheritedByName ==
  (/\ FromSource
   /\ phase = "running"
   /\ Opcode = OpcodeFuncConst
   /\ Len(closures') = Len(closures) + 1)
    => LET made == closures'[Len(closures')]
           records == PrototypeOf(made).Upvalues
           enclosing == closures[callStack[fp].Closure]
           enclosingRecords == PrototypeOf(enclosing).Upvalues
       IN  \A i \in 1..Len(records) :
             ~records[i].LocalToParent
               => /\ InRange(records[i].LookupIndex, Len(enclosingRecords))
                  /\ enclosingRecords[records[i].LookupIndex + 1].Name = records[i].Name
                  /\ made.Upvalues[i] = enclosing.Upvalues[records[i].LookupIndex + 1]

\* C26: inherited upvalues resolve by name: when a closure is built for a
\* function whose upvalue record for x has LocalToParent = false, the cell at
\* LookupIndex of the enclosing closure's upvalues is the enclosing closure's
\* cell for the same variable x, for one or two upvalues of the enclosing
\* function and every order in which the front-end lists them, and the
\* function nested two levels deep increments the grandparent's x and nothing
\* else (the programs print x + r = 4 or 14).
C26_InheritedUpvaluesByName ==
  /\ [][InheritedByName]_vars
  /\ []((ProgramName = "inherited") => PrintsExpected)

\* outer registers x then y and is listed y, x: inner increments y
C26_InnerWritesOtherVariable ==
  /\ ProgramName = "inherited"
  /\ Programs[prog].registered = <<"x", "y">>
  /\ Programs[prog].order = <<2, 1>>
  /\ phase = "halted"
  /\ out = Ints(<<23>>)

\* the programs in which outer's upvalues are listed in the order of their
\* registration print x + r
InheritedInRegistrationOrder ==
  (/\ ProgramName = "inherited"
   /\ Programs[prog].order \in {<<1>>, <<1, 2>>}) => PrintsExpected

\* the number of BinaryExpr nodes under the nodes, function bodies included
RECURSIVE BinaryNodes(_)
BinaryNodes(nodes) ==
  IF nodes = <<>>
    THEN 0
    ELSE LET n == Head(nodes)
         IN  (IF n.kind = "Binary" THEN 1 ELSE 0)
               + BinaryNodes(IF n.kind = "Func" THEN n.Body ELSE ChildNodes(n))
               + BinaryNodes(Tail(nodes))

\* the number of arithmetic and comparison instructions in code
BinaryInstructions(code) ==
  Cardinality({at \in InstructionStarts(code, 0) :
                 code[at + 1] \in IntBinaryOpcodes \cup DecBinaryOpcodes})

RECURSIVE BinaryInstructionsOf(_, _)
BinaryInstructionsOf(prototypes, k) ==
  IF k > Len(prototypes)
    THEN 0
    ELSE BinaryInstructions(prototypes[k].Bytecode)
           + BinaryInstructionsOf(prototypes, k + 1)

\* C27: every binary expression compiles to an instruction or to a fault:
\* when Compile returns normally, the prototypes hold one arithmetic or
\* comparison instruction for each BinaryExpr node of the program, whatever
\* the static type of the left operand (Int, Dec, Bool, Any, function) and
\* whatever the operator; otherwise compilation stopped with a fault.
C27_BinaryExprCompiles ==
  (FromSource /\ phase = "compiled")
    => BinaryInstructions(mainFunc.Bytecode) + BinaryInstructionsOf(funcs, 1)
         = BinaryNodes(Programs[prog].ast.Statements)

\* let f := fn(a) { return a + 3; }; print f(6); compiles without a fault
\* and without an instruction for a + 3
C27_NoInstructionForAny ==
  /\ ProgramName = "binary"
  /\ Programs[prog].leftType = "Any"
  /\ Programs[prog].operator = "+"
  /\ phase = "compiled"
  /\ BinaryNodes(Programs[prog].ast.Statements) = 1
  /\ BinaryInstructions(mainFunc.Bytecode) + BinaryInstructionsOf(funcs, 1) = 0

\* with a left operand of type Int or Dec the expression compiles to one
\* instruction, or to a fault for the operator &&
BinaryOfNumbersCompiles ==
  (/\ ProgramName = "binary"
   /\ Programs[prog].leftType \in {"Int", "Dec"})
    => /\ C27_BinaryExprCompiles
       /\ (Programs[prog].operator = "&&") => phase \in {"source", "fault"}

\* the branches of code are forward and land on an instruction of code
WellTargeted(code) ==
  \A at \in BranchesIn(code) :
    (code[at + 1] \in {OpcodeBrAlways, OpcodeBrTrue})
      => /\ TargetOf(code, at) > at
         /\ TargetOf(code, at) < Len(code)
         /\ TargetOf(code, at) \in InstructionStarts(code, 0)

\* C28: branches are forward and well-targeted: in every prototype Compile
\* returns, the address operand of each BrAlways and BrTrue is greater than
\* the offset of the branch, smaller than the size of the bytecode, and the
\* offset of the first byte of an instruction.
C28_BranchesWellTargeted ==
  (FromSource /\ phase = "compiled")
    => /\ WellTargeted(mainFunc.Bytecode)
       /\ \A k \in 1..Len(funcs) : WellTargeted(funcs[k].Bytecode)

\* a function whose body ends in an if statement has been compiled: the
\* branch to the done label lands on the Return 0 that ends the prototype
C28_BranchToFinalReturn ==
  /\ FromSource
  /\ phase = "compiled"
  /\ \E k \in 1..Len(funcs) :
       LET code == funcs[k].Bytecode
       IN  \E at \in BranchesIn(code) :
             /\ code[at + 1] = OpcodeBrAlways
             /\ TargetOf(code, at) = Len(code) - EncodedSize(OpcodeReturn)
             /\ code[TargetOf(code, at) + 1] = OpcodeReturn

\* the programs in which a function is called from its own body: fact calls
\* fact, and f(f) makes the g(g) of f's body a call of f
RecursivePrograms == {"fact", "selfCall"}

NonRecursive == FromSource /\ ProgramName \notin RecursivePrograms

\* no prototype has two activations on the call stack
NoActivationTwice ==
  \A i \in 1..Len(callStack) : \A j \in 1..Len(callStack) :
    (closures[callStack[i].Closure].Prototype = closures[callStack[j].Closure].Prototype)
      => i = j

\* within a frame ip only grows: an instruction leaves ip beyond its own
\* offset, a Dispatch starts a new frame at offset 0, and a Return resumes
\* the caller beyond the offset of the Dispatch it executed last
IpAdvances ==
  (NonRecursive /\ phase = "running" /\ phase' = "running")
    => CASE Opcode = OpcodeDispatch ->
              /\ ip' = 0
              /\ Len(callStack') = Len(callStack) + 1
              /\ \A i \in 1..Len(callStack) : callStack[i].id # callStack'[fp'].id
         [] Opcode = OpcodeReturn ->
              /\ callStack'[fp'].id = callStack[fp].caller
              /\ ip' > callStack[fp].callAt
         [] OTHER ->
              /\ callStack'[fp'].id = callStack[fp].id
              /\ ip' > ip

\* C29: termination without recursion: in every program compiled by Compile
\* in which no function is called from its own body (no prototype is ever
\* active twice), the VM reaches Halt or a fatal fault after finitely many
\* instructions, and within one frame ip never returns to an offset it has
\* already executed.
C29_TerminatesWithoutRecursion ==
  /\ [][IpAdvances]_vars
  /\ [](NonRecursive => NoActivationTwice)
  /\ (NonRecursive /\ phase = "running") ~> Terminal

\* a program with calls and taken branches in the callee has run to Halt
C29_BranchInCalleeHalted ==
  /\ ProgramName = "branchInCallee"
  /\ phase = "halted"
  /\ out = Ints(<<10, 20, 30>>)
  /\ \E i \in 1..Len(trace) : trace[i].op = "BrTrue" /\ trace[i].val.v = 1
  /\ \E i \in 1..Len(trace) : trace[i].op = "Return"

\* in f(f) the prototype of f is active twice (fact stops with a fault
\* before its second activation)
SelfCallActiveTwice ==
  /\ ProgramName = "selfCall"
  /\ ~NoActivationTwice

\* an int32 as 65536 * Hi16 + Lo16, Lo16 in 0..65535
Lo16(x) == x % 65536

Hi16(x) == (x - Lo16(x)) \div 65536

\* r = a + b modulo 2^32, added in halves with the carry
CongruentToSum(r, a, b) ==
  LET low == Lo16(a) + Lo16(b)
  IN  /\ Lo16(r) = low % 65536
      /\ (Hi16(r) - (Hi16(a) + Hi16(b) + (low \div 65536))) % 65536 = 0

\* r = a * b modulo 2^32: the product of the low halves, taken a byte of a
\* at a time, and the low half of the two cross products
CongruentToProduct(r, a, b) ==
  LET p0 == (Lo16(a) % 256) * Lo16(b)
      p1 == (Lo16(a) \div 256) * Lo16(b)
      low == p0 + ((p1 % 256) * 256)
      high == (low \div 65536) + (p1 \div 256)
      cross == ((Hi16(a) * Lo16(b)) % 65536) + ((Lo16(a) * Hi16(b)) % 65536)
  IN  /\ Lo16(r) = low % 65536
      /\ (Hi16(r) - (high + cross)) % 65536 = 0

InInt32(x) == x >= MinInt32 /\ x <= MaxInt32

\* the register i of the top frame holds an int32
HoldsInt(i) ==
  /\ InRange(i, NumRegisters)
  /\ RegisterAt(callStack[fp], i) # NilPointer
  /\ registers[RegisterAt(callStack[fp], i)].k = "int"

IntAt(i) == registers[RegisterAt(callStack[fp], i)].v

\* IntAdd, IntSub and IntMul on two integer registers, and IntNeg on one,
\* do not fault and write the result reduced modulo 2^32
IntegerOpWraps ==
  /\ (/\ phase = "running"
      /\ CanRead(3)
      /\ Opcode \in {OpcodeIntAdd, OpcodeIntSub, OpcodeIntMul}
      /\ HoldsInt(readRegister(1))
      /\ HoldsInt(readRegister(2))
      /\ InRange(readRegister(3), NumRegisters))
       => LET l == IntAt(readRegister(1))
              r == IntAt(readRegister(2))
              written == ValueIn(registers', callStack'[fp'], readRegister(3))
          IN  /\ phase' = "running"
              /\ written.k = "int"
              /\ InInt32(written.v)
              /\ CASE Opcode = OpcodeIntAdd -> CongruentToSum(written.v, l, r)
                   [] Opcode = OpcodeIntSub -> CongruentToSum(l, written.v, r)
                   [] Opcode = OpcodeIntMul -> CongruentToProduct(written.v, l, r)
  /\ (/\ phase = "running"
      /\ CanRead(2)
      /\ Opcode = OpcodeIntNeg
      /\ HoldsInt(readRegister(1))
      /\ InRange(readRegister(2), NumRegisters))
       => LET written == ValueIn(registers', callStack'[fp'], readRegister(2))
          IN  /\ phase' = "running"
              /\ written.k = "int"
              /\ InInt32(written.v)
              /\ CongruentToSum(0, written.v, IntAt(readRegister(1)))

\* C30: integer arithmetic wraps: IntAdd, IntSub and IntMul on two integer
\* registers never fault on overflow and write the mathematical result
\* reduced modulo 2^32 into -2^31 .. 2^31-1, and IntNeg writes the same
\* reduction of the negated operand; the samples at the ends of the range
\* print the reduced values.
C30_IntegerArithmeticWraps ==
  /\ [][IntegerOpWraps]_vars
  /\ []((ProgramName = "wrap" /\ Terminal)
          => /\ phase = "halted"
             /\ out = Ints(Assemblies[prog - Len(Programs)].wrapped))

\* MaxInt32 + 1, MaxInt32 - 1, MaxInt32 * 1 and -MaxInt32 have been printed
C30_WrappedPastMaxInt ==
  /\ ProgramName = "wrap"
  /\ phase = "halted"
  /\ out = Ints(<<MinInt32, 2147483646, MaxInt32, 0 - MaxInt32>>)
  /\ \E i \in 1..Len(trace) : trace[i].op = "IntNeg"

====
